---------------------------- MODULE Spec2Model ----------------------------
(***************************************************************************)
(* Model of the OKPD_fetcher spreadsheet reconciliation engine:            *)
(* grouping (main.group_similar), row filtering, classification loop with  *)
(* cooperative cancellation, and write-back of codes into the workbook for *)
(* StandardProcessor, Format41Processor, FullFormatProcessor and           *)
(* main.Processor; and, each on its own, column discovery, the backup of   *)
(* the input, the interface handlers on the shared stop flag, the look-up  *)
(* cache, the generator BaseProcessor.process, Processor._decide and the   *)
(* write-back over sheets of different layouts.                            *)
(*                                                                         *)
(* A text is a sequence of one-character strings.  Cyrillic letters of the *)
(* source are written with Latin letters (the keyword of a skip pattern    *)
(* such as 'Шт' is written "sht"); the structure of every text operation   *)
(* (split, strip, lower, regular-expression search, normalisation) is the  *)
(* one of the Python code.                                                 *)
(***************************************************************************)
EXTENDS Integers, Sequences, FiniteSets, TLC

VARIABLES
    elements,      \* group_similar: the input list
    gs_groups,     \* group_similar: the returned list of groups
    gs_pc,         \* "idle" | "input" | "done"
    scan,          \* the row scan of one sheet: the item column of df, the
                   \* header row count, the loop index, items_to_process,
                   \* the three skip counters and the branch taken per row
    proc,          \* the processor object and the position of its run
    wb,            \* self.workbook, the workbook open in memory (<<>>: None)
    files,         \* the files on disk: input, its backup copy, checkpoint
                   \* and output (<<>>: the file does not exist)
    stop_event,    \* the stop flag shared with the interface
    hist,          \* history of the run: the original workbook, the cells
                   \* written, the groups committed and persisted
    lookup,        \* one call of the text-lookup write-back on its own
    discovery,     \* the column discovery of one sheet on its own
    bak,           \* an input path and its backup copy over constructions and runs
    runs,          \* the interface handlers running at once on the one stop flag
    cache,         \* the look-up cache and the callers of fetch_okpd2_batch
    dec,           \* one call of Processor._decide on its own
    gen,           \* one call of the generator BaseProcessor.process
    cross          \* the Format 4.1 write-back over sheets of different layouts

groupVars == <<elements, gs_groups, gs_pc>>
pipeVars == <<proc, wb, files, stop_event, hist>>
envVars == <<bak, runs, cache, dec, gen, cross>>
auxVars == <<lookup, discovery, bak, runs, cache, dec, gen, cross>>
vars == <<elements, gs_groups, gs_pc, scan, proc, wb, files, stop_event, hist,
          lookup, discovery, bak, runs, cache, dec, gen, cross>>

\* group_similar is not being called
GroupIdle ==
    /\ elements = <<>>
    /\ gs_groups = <<>>
    /\ gs_pc = "idle"

ProcIdle ==
    [mode |-> "none", pc |-> "idle", save_interval |-> 1, num_header_rows |-> 0,
     sheet |-> 0, cur |-> 0, items |-> <<>>, name_to_idx |-> <<>>,
     groups |-> <<>>, g |-> 0, results_to_update |-> <<>>,
     codes_by_item |-> <<>>, all_results |-> 0, df |-> <<>>, result |-> "none",
     yielded |-> "nothing"]

NoFiles == [input |-> <<>>, backup |-> <<>>, checkpoint |-> <<>>, output |-> <<>>]

HistIdle ==
    [original |-> <<>>, writes |-> <<>>, committed |-> <<>>, persisted |-> <<>>,
     started |-> 0, finished |-> 0, saves |-> 0, cancelled |-> FALSE,
     cancelledInFlight |-> FALSE, failed |-> FALSE, raised |-> <<>>,
     checkpointed |-> FALSE,
     failed_saves |-> 0, further_saves |-> 0, unrecovered |-> FALSE,
     lost |-> FALSE]

LookupIdle == [pc |-> "idle"]

DiscoveryIdle == [pc |-> "idle"]

\* no backup scenario, no interface handler, no look-up and no decision
EnvIdle ==
    /\ bak = [pc |-> "idle"]
    /\ runs = [pc |-> "idle"]
    /\ cache = [pc |-> "idle"]
    /\ dec = [pc |-> "idle"]
    /\ gen = [pc |-> "idle"]
    /\ cross = [pc |-> "idle"]

\* no write-back and no column discovery is run on its own
AuxIdle ==
    /\ lookup = LookupIdle
    /\ discovery = DiscoveryIdle
    /\ EnvIdle

\* no processor is running
PipeIdle ==
    /\ proc = ProcIdle
    /\ wb = <<>>
    /\ files = NoFiles
    /\ stop_event = FALSE
    /\ hist = HistIdle

---------------------------------------------------------------------------
(* Characters and the Python string operations used by the code.           *)

Space == " "
NBSP == "nbsp"
Tab == "tab"
ZeroWidth == "zw"

\* str.isspace(): split() and strip() without arguments use it
IsSpace(c) == c \in {Space, NBSP, Tab}

Digits == {"0", "1", "2", "3", "4", "5", "6", "7", "8", "9"}

LowerOf == [A |-> "a", B |-> "b", C |-> "c", D |-> "d", E |-> "e", F |-> "f",
            G |-> "g", H |-> "h", I |-> "i", J |-> "j", K |-> "k", L |-> "l",
            M |-> "m", N |-> "n", O |-> "o", P |-> "p", Q |-> "q", R |-> "r",
            S |-> "s", T |-> "t", U |-> "u", V |-> "v", W |-> "w", X |-> "x",
            Y |-> "y", Z |-> "z"]

LowerLetters == {LowerOf[u] : u \in DOMAIN LowerOf}

lower_char(c) == IF c \in DOMAIN LowerOf THEN LowerOf[c] ELSE c

\* str.lower()
lower(s) == [i \in 1..Len(s) |-> lower_char(s[i])]

\* \w of the re module
IsWordChar(c) == c \in (DOMAIN LowerOf) \cup LowerLetters \cup Digits \cup {"_"}

\* str.isprintable() of one character
IsPrintable(c) == c \notin {Tab, ZeroWidth}

RECURSIVE SplitFrom(_, _, _, _)
SplitFrom(s, i, cur, acc) ==
    IF i > Len(s)
    THEN IF cur = <<>> THEN acc ELSE Append(acc, cur)
    ELSE IF IsSpace(s[i])
         THEN SplitFrom(s, i + 1, <<>>, IF cur = <<>> THEN acc ELSE Append(acc, cur))
         ELSE SplitFrom(s, i + 1, Append(cur, s[i]), acc)

\* str.split(): the maximal runs of non-whitespace characters
split(s) == SplitFrom(s, 1, <<>>, <<>>)

RECURSIVE JoinFrom(_, _)
JoinFrom(words, i) ==
    IF i > Len(words) THEN <<>>
    ELSE IF i = Len(words) THEN words[i]
    ELSE words[i] \o <<Space>> \o JoinFrom(words, i + 1)

\* " ".join(words)
join(words) == JoinFrom(words, 1)

\* str.strip()
strip(s) ==
    LET keep == {i \in 1..Len(s) : ~IsSpace(s[i])}
    IN  IF keep = {} THEN <<>>
        ELSE LET lo == CHOOSE i \in keep : \A j \in keep : i <= j
                 hi == CHOOSE i \in keep : \A j \in keep : j <= i
             IN  SubSeq(s, lo, hi)

\* str.isdigit() (false on the empty string)
isdigit(s) == Len(s) > 0 /\ \A i \in 1..Len(s) : s[i] \in Digits

\* a in b for two strings
Contains(b, a) ==
    \E i \in 1..(Len(b) - Len(a) + 1) : SubSeq(b, i, i + Len(a) - 1) = a

---------------------------------------------------------------------------
(* The cell texts the inputs are drawn from.                               *)

\* an empty cell: NaN in the DataFrame, None in the worksheet
NaN == <<"nan">>

T_BoltM6 == <<"B", "o", "l", "t", " ", "M", "6">>
T_BoltM8 == <<"B", "o", "l", "t", " ", "M", "8">>
T_boltM6 == <<"b", "o", "l", "t", " ", "M", "6">>
T_LeadBolt == <<" ", "B", "o", "l", "t", " ", "M", "6">>
T_NutShtDot == <<"N", "u", "t", " ", "s", "h", "t", ".">>
T_Empty == <<>>
T_Blank == <<" ">>
T_NutSht == <<"N", "u", "t", " ", "s", "h", "t">>
T_TS == <<"T", "S">>
T_Razdel1 == <<"R", "a", "z", "d", "e", "l", " ", "1">>
T_12 == <<"1", "2">>
T_1234 == <<"1", "2", "3", "4">>
T_X == <<"x">>

---------------------------------------------------------------------------
(* main.group_similar                                                      *)

\* index of key in the insertion-ordered dictionary d, 0 when absent
KeyIndex(d, key) ==
    IF \E j \in 1..Len(d) : d[j].key = key
    THEN CHOOSE j \in 1..Len(d) : d[j].key = key
    ELSE 0

FirstWordKeyLowered(words) == lower(words[1])

\* key = words[0]
FirstWordKey(words) == words[1]

\* by_key[key].append(el) on a defaultdict(list)
DictAppendReplacing(d, key, el) ==
    LET j == KeyIndex(d, key)
    IN  IF j = 0 THEN Append(d, [key |-> key, members |-> <<el>>])
        ELSE [d EXCEPT ![j].members = <<el>>]

DictAppend(d, key, el) ==
    LET j == KeyIndex(d, key)
    IN  IF j = 0 THEN Append(d, [key |-> key, members |-> <<el>>])
        ELSE [d EXCEPT ![j].members = Append(@, el)]

RECURSIVE GroupFold(_, _, _)
GroupFold(elems, i, by_key) ==
    IF i > Len(elems) THEN by_key
    ELSE LET el == elems[i]
             words == split(el)
         IN  IF el = <<>> THEN GroupFold(elems, i + 1, by_key)
             ELSE IF words = <<>> THEN GroupFold(elems, i + 1, by_key)
             ELSE GroupFold(elems, i + 1, DictAppend(by_key, FirstWordKey(words), el))

\* list(by_key.values())
group_similar(elems) ==
    LET d == GroupFold(elems, 1, <<>>)
    IN  [k \in 1..Len(d) |-> d[k].members]

---------------------------------------------------------------------------
(* The row filter of Format41Processor._process_sheet and                  *)
(* FullFormatProcessor._collect_items_from_sheet.                          *)

\* pd.isna(value)
isna(v) == v = NaN

KW_Razdel == <<"r", "a", "z", "d", "e", "l">>
KW_TS == <<"t", "s">>
KW_Sht == <<"s", "h", "t">>

\* the keyword kw starts at position i of s (re.IGNORECASE)
MatchWordAt(s, i, kw) ==
    /\ i >= 1
    /\ i + Len(kw) - 1 <= Len(s)
    /\ lower(SubSeq(s, i, i + Len(kw) - 1)) = kw

\* \b between s[i-1] and s[i]
Boundary(s, i) ==
    LET before == i > 1 /\ i - 1 <= Len(s) /\ IsWordChar(s[i - 1])
        after == i >= 1 /\ i <= Len(s) /\ IsWordChar(s[i])
    IN  before # after

\* r'Раздел\s+\d+'
SearchSection(s) ==
    \E i \in 1..Len(s) :
        /\ MatchWordAt(s, i, KW_Razdel)
        /\ \E j \in (i + Len(KW_Razdel))..(Len(s) - 1) :
               /\ \A k \in (i + Len(KW_Razdel))..j : IsSpace(s[k])
               /\ s[j + 1] \in Digits

\* r'\bТС\b'
SearchWord(s, kw) ==
    \E i \in 1..Len(s) :
        Boundary(s, i) /\ MatchWordAt(s, i, kw) /\ Boundary(s, i + Len(kw))

\* r'\bШт\b$'
SearchWordAtEnd(s, kw) ==
    \E i \in 1..Len(s) :
        /\ Boundary(s, i) /\ MatchWordAt(s, i, kw) /\ Boundary(s, i + Len(kw))
        /\ i + Len(kw) = Len(s) + 1

\* r'Код\s+ОКП' ('код' is written "kod" and 'окп' "okp")
SearchKodOkp(s) ==
    \E i \in 1..Len(s) :
        /\ MatchWordAt(s, i, <<"k", "o", "d">>)
        /\ \E j \in (i + 3)..(Len(s) - 1) :
               /\ \A k \in (i + 3)..j : IsSpace(s[k])
               /\ MatchWordAt(s, j + 1, <<"o", "k", "p">>)

\* pattern.search(text) for the modelled entries of SKIP_PATTERNS_COMPILED,
\* in list order (entries 11, 26, 29 and 30 of the list)
PatternSearch(p, s) ==
    CASE p = 1 -> SearchSection(s)
      [] p = 2 -> SearchKodOkp(s)
      [] p = 3 -> SearchWord(s, KW_TS)
      [] p = 4 -> SearchWordAtEnd(s, KW_Sht)

SKIP_PATTERNS == {1, 2, 3, 4}

\* the loop over SKIP_PATTERNS_COMPILED: skip_item
MatchesSkipPattern(s) == \E p \in SKIP_PATTERNS : PatternSearch(p, s)

HeaderRowHitInclusive(idx, hdr) == idx <= hdr

\* if idx < self._num_header_rows
HeaderRowHit(idx, hdr) == idx < hdr

\* the three checks counted in empty_skipped
EmptyHit(value) ==
    \/ isna(value)
    \/ Len(strip(value)) <= 1
    \/ (isdigit(strip(value)) /\ Len(strip(value)) <= 3)

RowBranchPatternFirst(idx, value, hdr) ==
    IF ~isna(value) /\ MatchesSkipPattern(strip(value)) THEN "noise"
    ELSE IF HeaderRowHit(idx, hdr) THEN "header"
    ELSE IF EmptyHit(value) THEN "empty"
    ELSE "data"

\* the branch one iteration of the scan loop takes, in the order of the code
RowBranch(idx, value, hdr) ==
    IF HeaderRowHit(idx, hdr) THEN "header"
    ELSE IF isna(value) THEN "empty"
    ELSE IF Len(strip(value)) <= 1 THEN "empty"
    ELSE IF isdigit(strip(value)) /\ Len(strip(value)) <= 3 THEN "empty"
    ELSE IF MatchesSkipPattern(strip(value)) THEN "noise"
    ELSE "data"

ScanIdle ==
    [pc |-> "idle", col |-> <<>>, hdr |-> 0, idx |-> 0, items |-> <<>>,
     headers_skipped |-> 0, empty_skipped |-> 0, patterns_skipped |-> 0,
     branch |-> <<>>]

\* one iteration of `for idx, row in self.df.iterrows()`
ScanStep(sc) ==
    LET value == sc.col[sc.idx + 1]
        b == RowBranch(sc.idx, value, sc.hdr)
    IN  [sc EXCEPT
           !.idx = @ + 1,
           !.pc = IF sc.idx + 1 = Len(sc.col) THEN "done" ELSE "scan",
           !.branch = Append(@, b),
           !.headers_skipped = IF b = "header" THEN @ + 1 ELSE @,
           !.empty_skipped = IF b = "empty" THEN @ + 1 ELSE @,
           !.patterns_skipped = IF b = "noise" THEN @ + 1 ELSE @,
           !.items = IF b = "data" THEN Append(@, <<sc.idx, strip(value)>>) ELSE @]

FilterPool == {NaN, T_X, T_12, T_1234, T_BoltM6, T_NutSht, T_NutShtDot, T_Razdel1, T_TS}

MaxScanRows == 3
MaxHeaderRows == 2

FilterInit ==
    /\ GroupIdle
    /\ PipeIdle
    /\ AuxIdle
    /\ \E col \in [1..MaxScanRows -> FilterPool], hdr \in 0..MaxHeaderRows :
           scan = [ScanIdle EXCEPT !.pc = "scan", !.col = col, !.hdr = hdr]

ScanRow ==
    /\ scan.pc = "scan"
    /\ scan' = ScanStep(scan)
    /\ UNCHANGED groupVars
    /\ UNCHANGED auxVars
    /\ UNCHANGED pipeVars

FilterNext == ScanRow

SpecFilter == FilterInit /\ [][FilterNext]_vars

---------------------------------------------------------------------------
(* Claim about the row filter.                                             *)

IsBlankValue(v) ==
    isna(v) \/ Len(strip(v)) <= 1 \/ (isdigit(strip(v)) /\ Len(strip(v)) <= 3)

\* the class the ordered rules Header, Empty, Noise, Data give a row
ClassByRules(idx, v, hdr) ==
    CASE idx < hdr -> "header"
      [] idx >= hdr /\ IsBlankValue(v) -> "empty"
      [] idx >= hdr /\ ~IsBlankValue(v) /\ MatchesSkipPattern(strip(v)) -> "noise"
      [] OTHER -> "data"

\* C7: every scanned row takes the branch of the first rule that applies in
\* the order Header, Empty, Noise, Data; the row at offset headerRowsToSkip
\* is not Header; a non-empty row past the header that matches a skip
\* pattern is not Data; items_to_process holds exactly the Data rows.
C7_RowClassByFirstRule ==
    /\ \A i \in 1..Len(scan.branch) :
           /\ scan.branch[i] = ClassByRules(i - 1, scan.col[i], scan.hdr)
           /\ (i - 1 = scan.hdr => scan.branch[i] # "header")
           /\ (i - 1 >= scan.hdr /\ ~IsBlankValue(scan.col[i])
                 /\ MatchesSkipPattern(strip(scan.col[i]))) => scan.branch[i] = "noise"
    /\ scan.headers_skipped + scan.empty_skipped + scan.patterns_skipped
           + Len(scan.items) = Len(scan.branch)
    /\ \A k \in 1..Len(scan.items) :
           scan.branch[scan.items[k][1] + 1] = "data"

\* scenario 1 of the specification: the row at offset headerRowsToSkip is
\* Data and the next row, past the header and matching a pattern, is Noise
C7_Witness ==
    /\ scan.pc = "done"
    /\ scan.hdr >= 1
    /\ scan.hdr + 2 <= Len(scan.branch)
    /\ scan.branch[scan.hdr] = "header"
    /\ MatchesSkipPattern(strip(scan.col[scan.hdr]))
    /\ scan.branch[scan.hdr + 1] = "data"
    /\ scan.branch[scan.hdr + 2] = "noise"

---------------------------------------------------------------------------
(* Workbooks and the write-back of codes.                                  *)
(* A workbook is a sequence of sheets, a sheet a sequence of rows, and a   *)
(* row holds the cells of the item column, the code column and the two     *)
(* columns after the code column (label, comment).  Row 1 of a sheet is    *)
(* the row pandas reads as the header, so DataFrame index idx is sheet row *)
(* idx + 2.                                                                *)

FORMULA == <<"=", "A", "1">>
H_Name == <<"N", "a", "m", "e">>
H_Code == <<"C", "o", "d", "e">>
H_Label == <<"L", "a", "b", "e", "l">>
H_Comment == <<"N", "o", "t", "e">>
C_A == <<"2", "5", ".", "1">>
C_B == <<"3", "2", ".", "9">>
N_A == <<"n", "a">>
N_B == <<"n", "b">>
NoComment == <<>>
FallbackComment == <<"(", "f", ")">>

Codes == {C_A, C_B}

\* the entry every failure branch of fetch_okpd2_batch stores for a term:
\* code '32.99.59.000' (written C_B) with the generic label (written N_B)
GenericEntry == [code |-> C_B, name |-> N_B]

\* what the look-up of a term meets: a cached list (which can be empty), the
\* items scraped from the site, or an error while fetching
FetchOutcomes ==
    {[from |-> "cache", items |-> <<>>],
     [from |-> "site", items |-> <<[code |-> C_A, name |-> N_A]>>],
     [from |-> "error", items |-> <<>>]}

\* fetch_okpd2_batch([term])[term]
fetch_okpd2_batch(o) ==
    IF o.from = "cache" THEN o.items
    ELSE IF o.from = "site" /\ o.items # <<>> THEN o.items
    ELSE <<GenericEntry>>

\* the code extract_code finds in the answer of the model
Picks == {C_A, C_B}

\* the first entry whose code is the code picked, 0 when there is none
EntryWithCode(entries, code, k) ==
    IF \E i \in 1..Len(entries) : entries[i].code = code
    THEN CHOOSE i \in 1..Len(entries) :
             /\ entries[i].code = code
             /\ \A j \in 1..(i - 1) : entries[j].code # code
    ELSE k

\* Processor._decide once the model has answered
decide(entries, picked) ==
    IF entries = <<>>
    THEN [code |-> C_B, name |-> N_B, comment |-> NoComment]
    ELSE LET i == EntryWithCode(entries, picked, 0)
         IN  IF i # 0
             THEN [code |-> picked, name |-> entries[i].name, comment |-> NoComment]
             ELSE [code |-> entries[1].code, name |-> entries[1].name,
                   comment |-> FallbackComment]

\* Processor._decide(None, ...) of StandardProcessor and Format41Processor:
\* with entries to choose from, self.model.generate is evaluated on None and
\* raises AttributeError
decide_raises(mode, entries) ==
    mode \in {"standard", "format41"} /\ entries # <<>>

\* what Processor._decide can return for a group
DecideResults ==
    {decide(fetch_okpd2_batch(o), picked) : o \in FetchOutcomes, picked \in Picks}

\* `if cell.value:` / `if not cell_value:`
Truthy(v) == v # NaN /\ v # <<>>

\* old_value and isinstance(old_value, str) and old_value.startswith('=')
IsFormula(v) == Truthy(v) /\ v[1] = "="

ReplaceChars(s, from, to) == [i \in 1..Len(s) |-> IF s[i] \in from THEN to ELSE s[i]]

RemoveSpaces(s) == SelectSeq(s, LAMBDA c : c # Space)

\* Format41Processor._normalize_cell_text
normalize_cell_text(text) ==
    IF ~Truthy(text) THEN <<>>
    ELSE LET t1 == ReplaceChars(text, {NBSP}, Space)
             t2 == join(split(t1))
             t3 == SelectSeq(t2, IsPrintable)
             t4 == ReplaceChars(t3, {"-", "_", ".", ","}, Space)
             t5 == join(split(t4))
         IN  lower(strip(t5))

\* d[key] = val on an insertion-ordered dict (a sequence of key/val records)
DictSet(d, key, val) ==
    LET j == KeyIndex(d, key)
    IN  IF j = 0 THEN Append(d, [key |-> key, val |-> val])
        ELSE [d EXCEPT ![j].val = val]

DictHas(d, key) == KeyIndex(d, key) # 0

DictGet(d, key) == d[KeyIndex(d, key)].val

\* sheets_to_search: the current sheet, then every other sheet in workbook order
sheets_to_search(wbk, cur) ==
    <<cur>> \o SelectSeq([i \in 1..Len(wbk) |-> i], LAMBDA i : i # cur)

\* the body of `for row in range(1, current_sheet.max_row + 1)`
MapPutRow(m, wbk, s, r) ==
    LET v == wbk[s][r].item
        n == normalize_cell_text(v)
        ns == RemoveSpaces(n)
        at == [sheet |-> s, row |-> r]
    IN  IF ~Truthy(v) \/ n = <<>> THEN m
        ELSE IF ns # n THEN DictSet(DictSet(m, n, at), ns, at)
        ELSE DictSet(m, n, at)

RECURSIVE MapScan(_, _, _, _, _)
MapScan(m, wbk, order, k, r) ==
    IF k > Len(order) THEN m
    ELSE IF r > Len(wbk[order[k]]) THEN MapScan(m, wbk, order, k + 1, 1)
    ELSE MapScan(MapPutRow(m, wbk, order[k], r), wbk, order, k, r + 1)

\* cell_content_map
cell_content_map(wbk, cur) == MapScan(<<>>, wbk, sheets_to_search(wbk, cur), 1, 1)

MinLen(a, b) == IF Len(a) <= Len(b) THEN Len(a) ELSE Len(b)
MaxLen(a, b) == IF Len(a) >= Len(b) THEN Len(a) ELSE Len(b)

\* ratio > best_ratio, both as fractions num/den
RatioGreater(num, den, bnum, bden) == num * bden > bnum * den

\* a key of the map is compared with anything, whatever its length
FuzzyCandidateAny(key, item_norm) == TRUE

\* `if len(key) < 5: continue`, then
\* `if item_normalized in key or key in item_normalized:`
FuzzyCandidate(key, item_norm) ==
    /\ ~(Len(key) < 5)
    /\ Contains(key, item_norm) \/ Contains(item_norm, key)

\* the loop `for key, (s, row) in cell_content_map.items()` of the fuzzy step
RECURSIVE FuzzyScan(_, _, _, _)
FuzzyScan(m, item_norm, k, best) ==
    IF k > Len(m) THEN best
    ELSE LET key == m[k].key
         IN  IF ~FuzzyCandidate(key, item_norm)
             THEN FuzzyScan(m, item_norm, k + 1, best)
             ELSE IF RatioGreater(MinLen(item_norm, key), MaxLen(item_norm, key),
                                  best.num, best.den)
                  THEN FuzzyScan(m, item_norm, k + 1,
                                 [num |-> MinLen(item_norm, key),
                                  den |-> MaxLen(item_norm, key), k |-> k])
                  ELSE FuzzyScan(m, item_norm, k + 1, best)

\* best_ratio = 0.8, best_match = None
FuzzyStart == [num |-> 4, den |-> 5, k |-> 0]

\* the no-space key is looked up before the exact key
ResolveNoSpaceFirst(m, item_text) ==
    LET n == normalize_cell_text(item_text)
        ns == RemoveSpaces(n)
        best == FuzzyScan(m, n, 1, FuzzyStart)
    IN  IF DictHas(m, ns)
        THEN [found |-> TRUE, step |-> "nospace", key |-> ns, at |-> DictGet(m, ns)]
        ELSE IF DictHas(m, n)
             THEN [found |-> TRUE, step |-> "exact", key |-> n, at |-> DictGet(m, n)]
        ELSE IF best.k # 0
             THEN [found |-> TRUE, step |-> "fuzzy", key |-> m[best.k].key,
                   at |-> m[best.k].val]
        ELSE [found |-> FALSE, step |-> "none", key |-> <<>>,
              at |-> [sheet |-> 0, row |-> 0]]

\* exact key, then no-space key, then fuzzy containment
Resolve(m, item_text) ==
    LET n == normalize_cell_text(item_text)
        ns == RemoveSpaces(n)
        best == FuzzyScan(m, n, 1, FuzzyStart)
    IN  IF DictHas(m, n)
        THEN [found |-> TRUE, step |-> "exact", key |-> n, at |-> DictGet(m, n)]
        ELSE IF DictHas(m, ns)
             THEN [found |-> TRUE, step |-> "nospace", key |-> ns, at |-> DictGet(m, ns)]
        ELSE IF best.k # 0
             THEN [found |-> TRUE, step |-> "fuzzy", key |-> m[best.k].key,
                   at |-> m[best.k].val]
        ELSE [found |-> FALSE, step |-> "none", key |-> <<>>,
              at |-> [sheet |-> 0, row |-> 0]]

\* the code is appended to what the cell holds
SetCodeAppending(wbk, s, r, code) ==
    [wbk EXCEPT ![s][r].code = IF Truthy(@) THEN @ \o code ELSE code]

\* cell.value = code
SetCode(wbk, s, r, code) == [wbk EXCEPT ![s][r].code = code]

\* the formula test before `cell.value = code`
FormulaGuard(old_value) == IsFormula(old_value)

\* Format41Processor._update_excel_with_codes: the loop over results_to_update
RECURSIVE F41WriteLoop(_, _, _, _)
F41WriteLoop(acc, m, results, k) ==
    IF k > Len(results) THEN acc
    ELSE LET data == results[k].val
             res == Resolve(m, data.item)
             s == res.at.sheet
             r == res.at.row
         IN  IF ~res.found THEN F41WriteLoop(acc, m, results, k + 1)
             ELSE IF FormulaGuard(acc.wb[s][r].code)
                  THEN F41WriteLoop(acc, m, results, k + 1)
             ELSE F41WriteLoop(
                      [acc EXCEPT !.wb = SetCode(acc.wb, s, r, data.code),
                                  !.writes = Append(@, [sheet |-> s, row |-> r,
                                                        item |-> data.item,
                                                        code |-> data.code,
                                                        step |-> res.step,
                                                        key |-> res.key])],
                      m, results, k + 1)

\* Format41Processor._update_excel_with_codes on the open workbook wbk with
\* current sheet cur: the workbook to save and the cells written
F41Update(wbk, cur, results) ==
    F41WriteLoop([wb |-> wbk, writes |-> <<>>], cell_content_map(wbk, cur), results, 1)

\* excel_row = int(row_idx) + 1
StdExcelRow(row_idx) == row_idx + 1

\* row=int(row)+2
FullExcelRow(row_idx) == row_idx + 2

\* the header cells of the three result columns are filled when empty
StdHeaders(wbk, s) ==
    [wbk EXCEPT ![s][1].code = IF Truthy(@) THEN @ ELSE H_Code,
                ![s][1].label = IF Truthy(@) THEN @ ELSE H_Label,
                ![s][1].comment = IF Truthy(@) THEN @ ELSE H_Comment]

\* StandardProcessor._update_excel_with_codes: the loop over results_to_update
RECURSIVE StdWriteLoop(_, _, _, _)
StdWriteLoop(acc, s, results, k) ==
    IF k > Len(results) THEN acc
    ELSE LET data == results[k].val
             r == StdExcelRow(results[k].key)
         IN  StdWriteLoop(
                 [acc EXCEPT !.wb = [acc.wb EXCEPT ![s][r].code = data.code,
                                                   ![s][r].label = data.name,
                                                   ![s][r].comment = data.comment],
                             !.writes = Append(@, [sheet |-> s, row |-> r,
                                                   item |-> data.item,
                                                   code |-> data.code])],
                 s, results, k + 1)

StdUpdate(wbk, s, results) ==
    StdWriteLoop([wb |-> StdHeaders(wbk, s), writes |-> <<>>], s, results, 1)

\* FullFormatProcessor._process_file, step 5: the loop over one sheet's updates
RECURSIVE FullWriteLoop(_, _, _, _)
FullWriteLoop(acc, s, updates, k) ==
    IF k > Len(updates) THEN acc
    ELSE LET data == updates[k].val
             r == FullExcelRow(updates[k].key)
         IN  IF FormulaGuard(acc.wb[s][r].code)
             THEN FullWriteLoop(acc, s, updates, k + 1)
             ELSE FullWriteLoop(
                      [acc EXCEPT !.wb = SetCode(acc.wb, s, r, data.code),
                                  !.writes = Append(@, [sheet |-> s, row |-> r,
                                                        item |-> data.item,
                                                        code |-> data.code])],
                      s, updates, k + 1)

---------------------------------------------------------------------------
(* Input workbooks.                                                        *)

Cell(item, code) == [item |-> item, code |-> code, label |-> NaN, comment |-> NaN]

\* row 1: the column headers 'Наименование' and 'Код ОКП/ОКПД2'
HeaderRow == Cell(H_Name, H_Code)

BlankRow == Cell(NaN, NaN)

\* a sheet: the header row, one blank row of the table header, the rows
Sheet(rows) == <<HeaderRow, BlankRow>> \o rows

Sh_Plain == Sheet(<<Cell(T_BoltM6, NaN), Cell(T_BoltM8, NaN), Cell(T_NutShtDot, NaN)>>)
Sh_Dup == Sheet(<<Cell(T_BoltM6, NaN), Cell(T_NutShtDot, NaN), Cell(T_BoltM6, NaN)>>)
Sh_Noise == Sheet(<<Cell(T_NutShtDot, NaN), Cell(T_NutSht, NaN), Cell(T_BoltM6, NaN)>>)
Sh_Formula == Sheet(<<Cell(T_BoltM6, FORMULA), Cell(T_BoltM8, NaN)>>)
Sh_Service == Sheet(<<Cell(T_NutSht, NaN), Cell(T_TS, NaN), Cell(NaN, NaN)>>)

WorkbookPool ==
    {<<Sh_Plain>>, <<Sh_Dup>>, <<Sh_Noise>>, <<Sh_Formula>>, <<Sh_Service>>,
     <<Sh_Plain, Sh_Noise>>, <<Sh_Service, Sh_Formula>>}

Modes == {"standard", "format41", "full", "run"}

MaxSaveInterval == 2

\* the header_rows value the interface passes to NUM_HEADER_ROWS
header_rows == 1

---------------------------------------------------------------------------
(* Reading the workbook.                                                   *)

LoadBackup(fs) == fs.backup

\* openpyxl.load_workbook(self.input_path)
LoadWorkbook(fs) == fs.input

\* workbook.active
ActiveSheet(wbk) == 1

\* pd.read_excel(path, sheet_name): the item column; row 1 is the header,
\* so index idx of the frame is sheet row idx + 2
read_excel(wbk, s) == [i \in 1..(Len(wbk[s]) - 1) |-> wbk[s][i + 1].item]

RECURSIVE ScanAll(_)
ScanAll(sc) == IF sc.pc = "done" THEN sc ELSE ScanAll(ScanStep(sc))

\* items_to_process of one sheet: the (idx, item_text) pairs of the Data rows
CollectItems(col, hdr) ==
    IF col = <<>> THEN <<>>
    ELSE ScanAll([ScanIdle EXCEPT !.pc = "scan", !.col = col, !.hdr = hdr]).items

\* StandardProcessor: name_to_idx[item_text] = idx for every non-empty row
RECURSIVE NameToIdx(_, _, _)
NameToIdx(col, i, m) ==
    IF i > Len(col) THEN m
    ELSE IF ~isna(col[i]) /\ strip(col[i]) # <<>>
         THEN NameToIdx(col, i + 1, DictSet(m, strip(col[i]), i - 1))
         ELSE NameToIdx(col, i + 1, m)

\* Format41Processor: item_to_idx = {text: idx for (idx, text) in items_to_process}
RECURSIVE ItemToIdx(_, _, _)
ItemToIdx(items, i, m) ==
    IF i > Len(items) THEN m
    ELSE ItemToIdx(items, i + 1, DictSet(m, items[i][2], items[i][1]))

\* the entry stored in results_to_update
ResultEntry(mode, res, item) ==
    IF mode = "standard"
    THEN [code |-> res.code, name |-> res.name, comment |-> res.comment, item |-> item]
    ELSE [code |-> res.code, item |-> item]

\* for item in grp: if item in name_to_idx: results_to_update[row_idx] = {...}
RECURSIVE CommitLoop(_, _, _, _, _, _)
CommitLoop(rtu, grp, k, m, res, mode) ==
    IF k > Len(grp) THEN rtu
    ELSE IF DictHas(m, grp[k])
         THEN CommitLoop(DictSet(rtu, DictGet(m, grp[k]), ResultEntry(mode, res, grp[k])),
                         grp, k + 1, m, res, mode)
         ELSE CommitLoop(rtu, grp, k + 1, m, res, mode)

\* for item in group: codes_by_item[item] = code
RECURSIVE CodesLoop(_, _, _, _)
CodesLoop(codes, grp, k, res) ==
    IF k > Len(grp) THEN codes
    ELSE CodesLoop(DictSet(codes, grp[k], res.code), grp, k + 1, res)

\* FullFormatProcessor step 1: all_items over the sheets in workbook order
RECURSIVE AllItems(_, _, _, _)
AllItems(wbk, s, hdr, acc) ==
    IF s > Len(wbk) THEN acc
    ELSE LET its == CollectItems(read_excel(wbk, s), hdr)
         IN  AllItems(wbk, s + 1, hdr,
                      acc \o [i \in 1..Len(its) |->
                                 [text |-> its[i][2], sheet |-> s, row |-> its[i][1]]])

\* list(all_unique_items): the texts of a set in any order
ListsOfSet(S) ==
    {f \in [1..Cardinality(S) -> S] : \A x \in S : \E i \in 1..Cardinality(S) : f[i] = x}

\* FullFormatProcessor step 4: updates_by_sheet[sheet_name]
RECURSIVE UpdatesOfSheet(_, _, _, _, _)
UpdatesOfSheet(all_items, k, s, codes, u) ==
    IF k > Len(all_items) THEN u
    ELSE IF all_items[k].sheet = s /\ DictHas(codes, all_items[k].text)
         THEN UpdatesOfSheet(all_items, k + 1, s, codes,
                             DictSet(u, all_items[k].row,
                                     [code |-> DictGet(codes, all_items[k].text),
                                      item |-> all_items[k].text]))
         ELSE UpdatesOfSheet(all_items, k + 1, s, codes, u)

\* FullFormatProcessor step 5: the updates of every sheet, sheet by sheet
RECURSIVE FullApplySheets(_, _, _, _)
FullApplySheets(acc, s, all_items, codes) ==
    IF s > Len(acc.wb) THEN acc
    ELSE FullApplySheets(
             FullWriteLoop(acc, s, UpdatesOfSheet(all_items, 1, s, codes, <<>>), 1),
             s + 1, all_items, codes)

FullUpdate(wbk, all_items, codes) ==
    FullApplySheets([wb |-> wbk, writes |-> <<>>], 1, all_items, codes)

\* main.Processor.__init__: the frame with the three result columns set to ''
RunFrame(wbk) ==
    LET col == read_excel(wbk, 1)
    IN  [i \in 1..Len(col) |-> [item |-> col[i], okpd |-> <<>>, name |-> <<>>,
                                comment |-> <<>>]]

\* df.loc[df['Наименование'].isin(grp), [...]] = [code, name, comment]
RunAssign(df, grp, res) ==
    [i \in 1..Len(df) |->
        IF \E k \in 1..Len(grp) : grp[k] = df[i].item
        THEN [df[i] EXCEPT !.okpd = res.code, !.name = res.name, !.comment = res.comment]
        ELSE df[i]]

---------------------------------------------------------------------------
(* The processors.                                                         *)

\* a file found at checkpoint_name when the run begins: no processor removes
\* it, and it holds the rows of whatever run wrote it
StaleCheckpoint == <<[item |-> T_X, okpd |-> C_B, name |-> N_B, comment |-> NoComment]>>

Init ==
    /\ GroupIdle
    /\ AuxIdle
    /\ scan = ScanIdle
    /\ wb = <<>>
    /\ \E w \in WorkbookPool, m \in Modes, si \in 1..MaxSaveInterval :
           /\ proc = [ProcIdle EXCEPT !.mode = m, !.pc = "start",
                                      !.save_interval = si,
                                      !.num_header_rows = header_rows]
           /\ \E old \in IF m = "run" THEN {<<>>} ELSE {<<>>, StaleCheckpoint} :
                  files = [NoFiles EXCEPT !.input = w, !.checkpoint = old,
                                          !.backup = IF m = "run" THEN <<>> ELSE w]
           /\ hist = [HistIdle EXCEPT !.original = w]
           /\ stop_event \in IF m = "run" THEN {FALSE} ELSE BOOLEAN

StopIgnored == FALSE

\* self.stop_event.is_set()
StopRequested == stop_event

\* the loop over the groups has ended or is left by `break`
LoopOver == proc.g = Len(proc.groups) \/ StopRequested

\* the history after a save of the workbook with the cells ws written
AfterSave(h, ws) ==
    [h EXCEPT !.writes = @ \o ws, !.persisted = h.committed, !.saves = @ + 1,
              !.unrecovered = FALSE]

\* the history after self.workbook.save(self.input_path) has raised: the
\* handler of the writer logs and returns False; the cells assigned are in
\* the open workbook only (unrecovered) until a later save of it succeeds
AfterFailedSave(h) == [h EXCEPT !.failed_saves = @ + 1, !.unrecovered = TRUE]

\* cancel_process: stop_event.set()
Cancel ==
    /\ proc.mode \in {"standard", "format41", "full"}
    /\ proc.pc \notin {"start", "done", "end"}
    /\ ~stop_event
    /\ stop_event' = TRUE
    /\ hist' = [hist EXCEPT !.cancelled = TRUE,
                            !.cancelledInFlight = (proc.pc = "classify")]
    /\ UNCHANGED <<proc, wb, files, scan>>
    /\ UNCHANGED groupVars
    /\ UNCHANGED auxVars

\* BaseProcessor.process: init_model() returns False
InitModelFails ==
    /\ proc.mode \in {"standard", "format41", "full"}
    /\ proc.pc = "start"
    /\ stop_event' = FALSE
    /\ proc' = [proc EXCEPT !.pc = "done", !.result = "failed"]
    /\ hist' = [hist EXCEPT !.failed = TRUE]
    /\ UNCHANGED <<wb, files, scan>>
    /\ UNCHANGED groupVars
    /\ UNCHANGED auxVars

\* os.path.exists(self.checkpoint_name)
CheckpointExists(fs) == fs.checkpoint # <<>>

\* BaseProcessor.process: the value yielded once _process_file has returned
\* or raised, or init_model has failed
ProcessYield ==
    /\ proc.mode \in {"standard", "format41", "full"}
    /\ proc.pc = "done"
    /\ proc' = [proc EXCEPT !.pc = "end",
                            !.yielded = IF proc.result = "ok" THEN "output"
                                        ELSE IF CheckpointExists(files)
                                             THEN "checkpoint"
                                             ELSE "nothing"]
    /\ UNCHANGED <<wb, files, stop_event, hist, scan>>
    /\ UNCHANGED groupVars
    /\ UNCHANGED auxVars

\* BaseProcessor.process and StandardProcessor._process_file up to the loop
StandardPrepare ==
    /\ proc.mode = "standard"
    /\ proc.pc = "start"
    /\ stop_event' = FALSE
    /\ wb' = LoadWorkbook(files)
    /\ LET col == read_excel(files.input, 1)
           originals == SelectSeq(col, LAMBDA v : ~isna(v))
       IN  proc' = IF originals = <<>>
                   THEN [proc EXCEPT !.pc = "done", !.result = "failed"]
                   ELSE [proc EXCEPT !.pc = "loop", !.cur = ActiveSheet(LoadWorkbook(files)),
                                     !.df = col, !.g = 0,
                                     !.groups = group_similar(originals),
                                     !.name_to_idx = NameToIdx(col, 1, <<>>),
                                     !.results_to_update = <<>>]
    /\ UNCHANGED <<files, hist, scan>>
    /\ UNCHANGED groupVars
    /\ UNCHANGED auxVars

\* the head of one iteration of the loop over the groups: the stop check, the
\* repeated service-line check, then the classification call is started
BeginGroup ==
    /\ proc.mode \in {"standard", "format41", "full"}
    /\ proc.pc = "loop"
    /\ proc.g < Len(proc.groups)
    /\ ~StopRequested
    /\ LET grp == proc.groups[proc.g + 1]
           is_service_line == proc.mode # "standard" /\ MatchesSkipPattern(grp[1])
       IN  /\ proc' = [proc EXCEPT !.g = @ + 1,
                                   !.pc = IF is_service_line THEN "loop" ELSE "classify"]
           /\ hist' = [hist EXCEPT !.started = IF is_service_line THEN @ ELSE @ + 1]
    /\ UNCHANGED <<wb, files, stop_event, scan>>
    /\ UNCHANGED groupVars
    /\ UNCHANGED auxVars

\* the classification call returns: the result is stored for the members of
\* the group and, every save_interval groups, written back and saved
ClassifyReturns ==
    /\ proc.pc = "classify"
    /\ \E o \in FetchOutcomes, picked \in Picks :
          /\ ~decide_raises(proc.mode, fetch_okpd2_batch(o))
          /\ LET grp == proc.groups[proc.g]
                 res == decide(fetch_okpd2_batch(o), picked)
                 h == [hist EXCEPT !.finished = @ + 1,
                                   !.committed = Append(@, [members |-> grp,
                                                            result |-> res,
                                                            sheet |-> proc.sheet,
                                                            lookup |-> o.from])]
                 rtu == CommitLoop(proc.results_to_update, grp, 1, proc.name_to_idx,
                                   res, proc.mode)
                 interim == proc.g % proc.save_interval = 0 /\ rtu # <<>>
                 upd == IF proc.mode = "standard" THEN StdUpdate(wb, proc.cur, rtu)
                        ELSE F41Update(wb, proc.cur, rtu)
             IN  IF proc.mode = "full"
                 THEN /\ proc' = [proc EXCEPT !.pc = "loop",
                                     !.codes_by_item = CodesLoop(@, grp, 1, res)]
                      /\ hist' = h
                      /\ UNCHANGED <<wb, files>>
                 ELSE /\ proc' = [proc EXCEPT !.pc = "loop", !.results_to_update = rtu]
                      /\ IF interim
                         THEN /\ wb' = upd.wb
                              /\ \E save_ok \in BOOLEAN :
                                    IF save_ok
                                    THEN /\ files' = [files EXCEPT !.input = upd.wb]
                                         /\ hist' = AfterSave(h, upd.writes)
                                    ELSE /\ hist' = AfterFailedSave(h)
                                         /\ UNCHANGED files
                         ELSE /\ hist' = h
                              /\ UNCHANGED <<wb, files>>
    /\ UNCHANGED <<stop_event, scan>>
    /\ UNCHANGED groupVars
    /\ UNCHANGED auxVars

\* the classification call raises: the handler logs and the loop goes on
ClassifyRaises ==
    /\ proc.pc = "classify"
    /\ proc' = [proc EXCEPT !.pc = "loop"]
    /\ hist' = [hist EXCEPT !.finished = @ + 1, !.failed = TRUE,
                            !.raised = Append(@, proc.groups[proc.g])]
    /\ UNCHANGED <<wb, files, stop_event, scan>>
    /\ UNCHANGED groupVars
    /\ UNCHANGED auxVars

\* StandardProcessor._process_file after the loop: the final write-back and
\* the copy to output_path
StandardFinish ==
    /\ proc.mode = "standard"
    /\ proc.pc = "loop"
    /\ LoopOver
    /\ IF proc.results_to_update # <<>>
       THEN LET upd == StdUpdate(wb, proc.cur, proc.results_to_update)
            IN  /\ wb' = upd.wb
                /\ files' = [files EXCEPT !.input = upd.wb, !.output = upd.wb]
                /\ hist' = AfterSave(hist, upd.writes)
                /\ proc' = [proc EXCEPT !.pc = "done", !.result = "ok"]
       ELSE /\ proc' = [proc EXCEPT !.pc = "done", !.result = "failed"]
            /\ UNCHANGED <<wb, files, hist>>
    /\ UNCHANGED <<stop_event, scan>>
    /\ UNCHANGED groupVars
    /\ UNCHANGED auxVars

\* _save_results_to_new_file: the frame with the results filled in by row
\* index, as written to output_path
StdNewFile(wbk, s, results) ==
    LET col == read_excel(wbk, s)
    IN  [i \in 1..Len(col) |->
            IF DictHas(results, i - 1)
            THEN [item |-> col[i], okpd |-> DictGet(results, i - 1).code,
                  name |-> DictGet(results, i - 1).name,
                  comment |-> DictGet(results, i - 1).comment]
            ELSE [item |-> col[i], okpd |-> <<>>, name |-> <<>>, comment |-> <<>>]]

\* StandardProcessor._process_file after the loop when the save of the final
\* write-back raises: the results are saved to a new file at output_path,
\* which can fail as well, and False is returned
StandardFinishSaveFails ==
    /\ proc.mode = "standard"
    /\ proc.pc = "loop"
    /\ LoopOver
    /\ proc.results_to_update # <<>>
    /\ wb' = StdUpdate(wb, proc.cur, proc.results_to_update).wb
    /\ \E new_file_ok \in BOOLEAN :
          /\ files' = IF new_file_ok
                      THEN [files EXCEPT !.output = StdNewFile(files.input, proc.cur,
                                                               proc.results_to_update)]
                      ELSE files
          /\ hist' = [AfterFailedSave(hist) EXCEPT !.further_saves = @ + 1,
                                                   !.unrecovered = ~new_file_ok]
    /\ proc' = [proc EXCEPT !.pc = "done", !.result = "failed"]
    /\ UNCHANGED <<stop_event, scan>>
    /\ UNCHANGED groupVars
    /\ UNCHANGED auxVars

\* BaseProcessor.process and Format41Processor._process_file up to the loop
\* over the sheets
Format41Start ==
    /\ proc.mode = "format41"
    /\ proc.pc = "start"
    /\ stop_event' = FALSE
    /\ proc' = [proc EXCEPT !.pc = "sheet", !.sheet = 0, !.all_results = 0]
    /\ UNCHANGED <<wb, files, hist, scan>>
    /\ UNCHANGED groupVars
    /\ UNCHANGED auxVars

\* one iteration of the loop over the sheets up to the loop over the groups:
\* the state of the previous sheet is dropped, the workbook is loaded again
\* (cells assigned but never saved are lost), the sheet is read and filtered,
\* the items are grouped
Format41NextSheet ==
    /\ proc.mode = "format41"
    /\ proc.pc = "sheet"
    /\ proc.sheet < Len(files.input)
    /\ wb' = LoadWorkbook(files)
    /\ LET s == proc.sheet + 1
           items == CollectItems(read_excel(files.input, s), proc.num_header_rows)
           texts == [i \in 1..Len(items) |-> items[i][2]]
       IN  proc' = IF items = <<>>
                   THEN [proc EXCEPT !.sheet = s, !.cur = ActiveSheet(LoadWorkbook(files)),
                                     !.results_to_update = <<>>, !.items = <<>>,
                                     !.groups = <<>>, !.g = 0, !.name_to_idx = <<>>]
                   ELSE [proc EXCEPT !.sheet = s, !.cur = ActiveSheet(LoadWorkbook(files)),
                                     !.results_to_update = <<>>, !.items = items,
                                     !.groups = group_similar(texts), !.g = 0,
                                     !.name_to_idx = ItemToIdx(items, 1, <<>>),
                                     !.pc = "loop"]
    /\ hist' = [hist EXCEPT !.lost = @ \/ hist.unrecovered, !.unrecovered = FALSE]
    /\ UNCHANGED <<files, stop_event, scan>>
    /\ UNCHANGED groupVars
    /\ UNCHANGED auxVars

\* _process_sheet returns True: the results of the sheet are counted and
\* written back
Format41EndSheet ==
    /\ proc.mode = "format41"
    /\ proc.pc = "loop"
    /\ LoopOver
    /\ proc' = [proc EXCEPT !.pc = "sheet", !.all_results = @ + 1]
    /\ IF proc.results_to_update # <<>>
       THEN LET upd == F41Update(wb, proc.cur, proc.results_to_update)
            IN  /\ wb' = upd.wb
                /\ files' = [files EXCEPT !.input = upd.wb]
                /\ hist' = AfterSave(hist, upd.writes)
       ELSE UNCHANGED <<wb, files, hist>>
    /\ UNCHANGED <<stop_event, scan>>
    /\ UNCHANGED groupVars
    /\ UNCHANGED auxVars

\* _process_sheet returns True and the save of the write-back raises: the
\* writer returns False, which _process_file does not look at
Format41EndSheetSaveFails ==
    /\ proc.mode = "format41"
    /\ proc.pc = "loop"
    /\ LoopOver
    /\ proc.results_to_update # <<>>
    /\ proc' = [proc EXCEPT !.pc = "sheet", !.all_results = @ + 1]
    /\ wb' = F41Update(wb, proc.cur, proc.results_to_update).wb
    /\ hist' = AfterFailedSave(hist)
    /\ UNCHANGED <<files, stop_event, scan>>
    /\ UNCHANGED groupVars
    /\ UNCHANGED auxVars

\* after the last sheet: the copy to output_path and the return value
Format41Finish ==
    /\ proc.mode = "format41"
    /\ proc.pc = "sheet"
    /\ proc.sheet = Len(files.input)
    /\ files' = [files EXCEPT !.output = files.input]
    /\ proc' = [proc EXCEPT !.pc = "done",
                            !.result = IF proc.all_results > 0 THEN "ok" ELSE "failed"]
    /\ UNCHANGED <<wb, stop_event, hist, scan>>
    /\ UNCHANGED groupVars
    /\ UNCHANGED auxVars

\* BaseProcessor.process and FullFormatProcessor._process_file steps 1 and 2
FullCollect ==
    /\ proc.mode = "full"
    /\ proc.pc = "start"
    /\ stop_event' = FALSE
    /\ wb' = LoadWorkbook(files)
    /\ LET all_items == AllItems(files.input, 1, proc.num_header_rows, <<>>)
           all_unique_items == {all_items[i].text : i \in 1..Len(all_items)}
       IN  IF all_unique_items = {}
           THEN proc' = [proc EXCEPT !.pc = "done", !.result = "failed"]
           ELSE \E unique_texts \in ListsOfSet(all_unique_items) :
                    proc' = [proc EXCEPT !.pc = "loop", !.items = all_items, !.g = 0,
                                         !.groups = group_similar(unique_texts),
                                         !.codes_by_item = <<>>]
    /\ UNCHANGED <<files, hist, scan>>
    /\ UNCHANGED groupVars
    /\ UNCHANGED auxVars

\* FullFormatProcessor._process_file steps 4 to 6
FullApply ==
    /\ proc.mode = "full"
    /\ proc.pc = "loop"
    /\ LoopOver
    /\ LET upd == FullUpdate(wb, proc.items, proc.codes_by_item)
       IN  /\ wb' = upd.wb
           /\ files' = [files EXCEPT !.input = upd.wb, !.output = upd.wb]
           /\ hist' = AfterSave(hist, upd.writes)
    /\ proc' = [proc EXCEPT !.pc = "done", !.result = "ok"]
    /\ UNCHANGED <<stop_event, scan>>
    /\ UNCHANGED groupVars
    /\ UNCHANGED auxVars

\* FullFormatProcessor._process_file step 6 when the save raises: False is
\* returned before the copy to output_path
FullApplySaveFails ==
    /\ proc.mode = "full"
    /\ proc.pc = "loop"
    /\ LoopOver
    /\ wb' = FullUpdate(wb, proc.items, proc.codes_by_item).wb
    /\ hist' = AfterFailedSave(hist)
    /\ proc' = [proc EXCEPT !.pc = "done", !.result = "failed"]
    /\ UNCHANGED <<files, stop_event, scan>>
    /\ UNCHANGED groupVars
    /\ UNCHANGED auxVars

\* main.Processor.__init__ and run up to the loop over the groups
RunStart ==
    /\ proc.mode = "run"
    /\ proc.pc = "start"
    /\ LET df == RunFrame(files.input)
           terms == SelectSeq(read_excel(files.input, 1), LAMBDA v : ~isna(v))
       IN  proc' = [proc EXCEPT !.pc = "loop", !.df = df, !.g = 0,
                                !.groups = group_similar(terms)]
    /\ UNCHANGED <<wb, files, stop_event, hist, scan>>
    /\ UNCHANGED groupVars
    /\ UNCHANGED auxVars

\* one iteration of the loop of run: _decide returns or raises, then the
\* checkpoint every save_interval groups
RunGroup ==
    /\ proc.mode = "run"
    /\ proc.pc = "loop"
    /\ proc.g < Len(proc.groups)
    /\ \E decided \in BOOLEAN, o \in FetchOutcomes, picked \in Picks :
          LET grp == proc.groups[proc.g + 1]
              res == decide(fetch_okpd2_batch(o), picked)
              df == IF decided THEN RunAssign(proc.df, grp, res) ELSE proc.df
              h == [hist EXCEPT !.started = @ + 1, !.finished = @ + 1,
                                !.failed = @ \/ ~decided,
                                !.raised = IF decided THEN @ ELSE Append(@, grp),
                                !.committed = IF decided
                                              THEN Append(@, [members |-> grp,
                                                              result |-> res,
                                                              sheet |-> 0,
                                                              lookup |-> o.from])
                                              ELSE @]
          IN  /\ proc' = [proc EXCEPT !.g = @ + 1, !.df = df]
              /\ IF (proc.g + 1) % proc.save_interval = 0
                 THEN /\ files' = [files EXCEPT !.checkpoint = df]
                      /\ hist' = [AfterSave(h, <<>>) EXCEPT !.checkpointed = TRUE]
                 ELSE /\ hist' = h
                      /\ UNCHANGED files
    /\ UNCHANGED <<wb, stop_event, scan>>
    /\ UNCHANGED groupVars
    /\ UNCHANGED auxVars

\* df.to_excel(self.output_excel)
RunFinish ==
    /\ proc.mode = "run"
    /\ proc.pc = "loop"
    /\ proc.g = Len(proc.groups)
    /\ files' = [files EXCEPT !.output = proc.df]
    /\ proc' = [proc EXCEPT !.pc = "done", !.result = "ok"]
    /\ UNCHANGED <<wb, stop_event, hist, scan>>
    /\ UNCHANGED groupVars
    /\ UNCHANGED auxVars

\* the outer handler of run: an exception ends the run after the emergency
\* checkpoint
RunCrash ==
    /\ proc.mode = "run"
    /\ proc.pc = "loop"
    /\ files' = [files EXCEPT !.checkpoint = proc.df]
    /\ hist' = [AfterSave(hist, <<>>) EXCEPT !.failed = TRUE, !.checkpointed = TRUE]
    /\ proc' = [proc EXCEPT !.pc = "done", !.result = "raised"]
    /\ UNCHANGED <<wb, stop_event, scan>>
    /\ UNCHANGED groupVars
    /\ UNCHANGED auxVars

Next ==
    \/ Cancel
    \/ InitModelFails
    \/ ProcessYield
    \/ StandardPrepare
    \/ BeginGroup
    \/ ClassifyReturns
    \/ ClassifyRaises
    \/ StandardFinish
    \/ StandardFinishSaveFails
    \/ Format41Start
    \/ Format41NextSheet
    \/ Format41EndSheet
    \/ Format41EndSheetSaveFails
    \/ Format41Finish
    \/ FullCollect
    \/ FullApply
    \/ FullApplySaveFails
    \/ RunStart
    \/ RunGroup
    \/ RunFinish
    \/ RunCrash

Spec == Init /\ [][Next]_vars

---------------------------------------------------------------------------
(* Claims about the write-back.                                            *)

\* the class the row filter gives sheet row r of sheet s (row 1 is the
\* header pandas consumes, row r is index r - 2 of the frame)
RowClass(wbk, s, r) ==
    IF r = 1 THEN "header"
    ELSE RowBranch(r - 2, wbk[s][r].item, proc.num_header_rows)

InSeq(x, seq) == \E k \in 1..Len(seq) : seq[k] = x

\* C1: a cell of the code column that held a formula in the input workbook
\* holds the same formula in the saved workbook after every write-back, in
\* every processor.
C1_FormulaCellsKept ==
    \A s \in 1..Len(hist.original) : \A r \in 1..Len(hist.original[s]) :
        IsFormula(hist.original[s][r].code)
            => files.input[s][r].code = hist.original[s][r].code

\* C2: in the processors with a row filter, a row the filter classifies as
\* Noise has no entry in results_to_update and write-back writes no code
\* into it.
C2_NoiseRowsGetNoResult ==
    proc.mode \in {"format41", "full"} =>
        /\ \A k \in 1..Len(hist.writes) :
               RowClass(hist.original, hist.writes[k].sheet, hist.writes[k].row) # "noise"
        /\ \A k \in 1..Len(proc.results_to_update) :
               RowClass(hist.original, proc.sheet, proc.results_to_update[k].key + 2)
                   # "noise"

\* the text of an item-column cell is the item's text: equal after
\* normalisation, equal without spaces, or accepted by the fuzzy rule
TextMatches(cell, item) ==
    /\ Truthy(cell)
    /\ LET c == normalize_cell_text(cell)
           n == normalize_cell_text(item)
       IN  \/ c = n
           \/ RemoveSpaces(c) = RemoveSpaces(n)
           \/ \E key \in {c, RemoveSpaces(c)} :
                  /\ Len(key) >= 5
                  /\ Contains(key, n) \/ Contains(n, key)
                  /\ RatioGreater(MinLen(n, key), MaxLen(n, key), 4, 5)

\* C3: every cell write-back wrote for an item lies in a sheet row whose
\* item-column cell holds that item's text.
C3_WriteHitsItemRow ==
    \A k \in 1..Len(hist.writes) :
        LET w == hist.writes[k]
        IN  TextMatches(hist.original[w.sheet][w.row].item, w.item)

\* the sheet rows whose item text is a member of the committed group c
MemberRows(c) ==
    LET orig == hist.original
    IN  CASE proc.mode = "format41" ->
                 {<<c.sheet, r>> : r \in {q \in 2..Len(orig[c.sheet]) :
                      /\ RowClass(orig, c.sheet, q) = "data"
                      /\ InSeq(strip(orig[c.sheet][q].item), c.members)}}
          [] proc.mode = "full" ->
                 {sr \in UNION {{<<s, q>> : q \in 2..Len(orig[s])} : s \in 1..Len(orig)} :
                      /\ RowClass(orig, sr[1], sr[2]) = "data"
                      /\ InSeq(strip(orig[sr[1]][sr[2]].item), c.members)}
          [] OTHER ->
                 {<<1, r>> : r \in {q \in 2..Len(orig[1]) :
                      /\ ~isna(orig[1][q].item)
                      /\ InSeq(orig[1][q].item, c.members)}}

\* the result code the finished run left in sheet row r of sheet s
FinalCode(s, r) ==
    IF proc.mode = "run" THEN files.output[r - 1].okpd ELSE files.input[s][r].code

\* C4: after a run that ended well, was not cancelled and in which no
\* classification failed, every row whose item text is a member of a
\* committed group holds the code of that group's result (rows whose code
\* cell is a formula apart), rows with duplicated texts included.
C4_MembersHoldGroupResult ==
    (proc.pc = "done" /\ proc.result = "ok" /\ ~hist.cancelled /\ ~hist.failed) =>
        \A k \in 1..Len(hist.committed) :
            \A sr \in MemberRows(hist.committed[k]) :
                ~IsFormula(hist.original[sr[1]][sr[2]].code)
                    => FinalCode(sr[1], sr[2]) = hist.committed[k].result.code

---------------------------------------------------------------------------
(* Claims about cancellation and the persisted snapshots.                  *)

\* C8: while the stop flag is set no classification call is started, on
\* the current sheet or a later one, and the step a processor takes with a
\* call in flight is the end of that call, after which the loop is resumed.
C8_NoGroupStartedAfterStop ==
    [][stop_event =>
          /\ hist'.started = hist.started
          /\ (proc.pc = "classify" /\ proc' # proc) =>
                 (hist'.finished = hist.finished + 1 /\ proc'.pc = "loop")]_vars

\* the flag was set with a call in flight, the call has ended, and a later
\* sheet with groups still to do has been reached without starting one
C8_Witness ==
    /\ stop_event
    /\ hist.cancelledInFlight
    /\ hist.finished = hist.started
    /\ proc.mode = "format41"
    /\ proc.sheet = 2
    /\ proc.pc = "sheet"
    /\ proc.g = 0
    /\ Len(proc.groups) > 0

\* the result code the persisted snapshot holds in sheet row r of sheet s
SnapshotCode(s, r) ==
    IF proc.mode = "run" THEN files.checkpoint[r - 1].okpd ELSE files.input[s][r].code

\* the code a row without result holds
UntouchedCode(s, r) ==
    IF proc.mode = "run" THEN <<>> ELSE hist.original[s][r].code

\* C9: a persisted snapshot holds the result of every group committed when
\* it was saved in all member rows of the group (rows whose code cell is a
\* formula apart), and no result in a row that is a member of none of them.
C9_SnapshotHoldsCommittedGroups ==
    hist.saves > 0 =>
        /\ \A k \in 1..Len(hist.persisted) :
               \A sr \in MemberRows(hist.persisted[k]) :
                   ~IsFormula(hist.original[sr[1]][sr[2]].code)
                       => SnapshotCode(sr[1], sr[2]) = hist.persisted[k].result.code
        /\ \A s \in 1..(IF proc.mode \in {"format41", "full"} THEN Len(hist.original) ELSE 1) :
               \A r \in 2..Len(hist.original[s]) :
                   (\A k \in 1..Len(hist.persisted) :
                        <<s, r>> \notin MemberRows(hist.persisted[k]))
                       => SnapshotCode(s, r) = UntouchedCode(s, r)

\* a cell holds a result code
HasResult(v) == v \in Codes

\* C10: a row that holds a result in the persisted workbook or checkpoint
\* holds a result after every later step, across the reset of
\* results_to_update per sheet and the reloading of the workbook.
C10_PersistedResultsOnlyGrow ==
    [][/\ \A s \in 1..Len(files.input) : \A r \in 1..Len(files.input[s]) :
              HasResult(files.input[s][r].code) => HasResult(files'.input[s][r].code)
       /\ \A r \in 1..Len(files.checkpoint) :
              HasResult(files.checkpoint[r].okpd) => HasResult(files'.checkpoint[r].okpd)
      ]_vars

\* the workbook was saved while the second sheet was processed, after the
\* reset and the reload, and a row of the first sheet holds a result
C10_Witness ==
    /\ proc.mode = "format41"
    /\ proc.sheet = 2
    /\ hist.saves >= 2
    /\ \E k \in 1..Len(hist.persisted) : hist.persisted[k].sheet = 2
    /\ \E r \in 1..Len(files.input[1]) : HasResult(files.input[1][r].code)

---------------------------------------------------------------------------

(***************************************************************************)
(* Claims about the value process() yields.                               *)
(***************************************************************************)

\* the file at checkpoint_name was written by this run
OwnCheckpoint == CheckpointExists(files) /\ hist.checkpointed

\* C11: when the run of process() has failed, the value yielded is the
\* checkpoint path exactly when a checkpoint file written by this run exists,
\* and it is never the output path
C11_FailedRunYieldsOwnCheckpoint ==
    (proc.pc = "end" /\ proc.result # "ok") =>
        /\ proc.yielded # "output"
        /\ (proc.yielded = "checkpoint") <=> OwnCheckpoint

---------------------------------------------------------------------------

(***************************************************************************)
(* Claim about a group whose classification fails.                         *)
(***************************************************************************)

\* code 32.99.59.000, the generic label and the comment '(fallback)'
FallbackResult == [code |-> C_B, name |-> N_B, comment |-> FallbackComment]

\* C12: a group whose classification failed, because the look-up of its term
\* met an error or because processing the group raised, has the fixed
\* fallback result (code 32.99.59.000, generic label, comment '(fallback)')
\* stored for its members
C12_FailedGroupGetsFallback ==
    /\ \A k \in 1..Len(hist.committed) :
           hist.committed[k].lookup = "error" =>
               hist.committed[k].result = FallbackResult
    /\ \A k \in 1..Len(hist.raised) :
           \E j \in 1..Len(hist.committed) :
               /\ hist.committed[j].members = hist.raised[k]
               /\ hist.committed[j].result = FallbackResult

---------------------------------------------------------------------------

(***************************************************************************)
(* Claim about the interim saves.                                          *)
(***************************************************************************)

\* this step ends the iteration of the loop over the groups for a group: it
\* was skipped as a service line, or its classification returned or raised
GroupEnds ==
    \/ proc.pc = "classify" /\ proc'.pc = "loop"
    \/ proc.pc = "loop" /\ proc'.pc = "loop" /\ proc'.g = proc.g + 1

\* C18: in the processors that save every save_interval groups, the step that
\* ends the save_interval-th, 2*save_interval-th, ... group leaves every
\* result committed so far persisted, also when that group was skipped as a
\* service line or its classification raised
C18_EveryIntervalGroupPersists ==
    [][(/\ proc.mode \in {"run", "standard", "format41"}
        /\ GroupEnds
        /\ proc'.g % proc.save_interval = 0)
       => hist'.persisted = hist'.committed]_vars

---------------------------------------------------------------------------

(***************************************************************************)
(* Claim about a save that fails.                                          *)
(***************************************************************************)

\* C19: when process() of StandardProcessor or Format41Processor has ended
\* and a save of the workbook failed during write-back without any later save
\* making it good, then one further save was attempted, the run is reported
\* as failed and the output path is not yielded
C19_FailedSaveRetriedOnceElseRunFails ==
    (/\ proc.pc = "end"
     /\ proc.mode \in {"standard", "format41"}
     /\ hist.unrecovered \/ hist.lost)
    => /\ hist.further_saves = 1
       /\ proc.result # "ok"
       /\ proc.yielded # "output"

---------------------------------------------------------------------------

(***************************************************************************)
(* The write-back on its own: _update_excel_with_codes is called on a      *)
(* workbook with a results_to_update drawn from bounded sets, once and     *)
(* then a second time with the same results.                               *)
(***************************************************************************)

L_ab_cd == <<"a", "b", " ", "c", "d">>
L_abcd == <<"a", "b", "c", "d">>
L_abcde == <<"a", "b", "c", "d", "e">>
L_abcdef == <<"a", "b", "c", "d", "e", "f">>
L_Ab_cd == <<"A", "b", "-", "c", "d">>
L_xabcde == <<"x", "a", "b", "c", "d", "e">>

LookupTexts == {L_ab_cd, L_abcd, L_abcde, L_abcdef, L_Ab_cd, L_xabcde}

\* one sheet with two item rows, or two sheets with one item row each
LookupWorkbooks ==
    {<<Sheet(<<Cell(a, NaN), Cell(b, NaN)>>)>> : a, b \in LookupTexts}
    \cup {<<Sheet(<<Cell(a, NaN)>>), Sheet(<<Cell(b, NaN)>>)>> : a, b \in LookupTexts}

Writers == {"format41", "standard"}

\* the k-th entry of results_to_update, stored under the frame index k - 1,
\* for the text item
LookupEntry(writer, k, item) ==
    [key |-> k - 1,
     val |-> ResultEntry(writer,
                         [code |-> IF k = 1 THEN C_A ELSE C_B,
                          name |-> IF k = 1 THEN N_A ELSE N_B,
                          comment |-> NoComment],
                         item)]

\* results_to_update with one entry or with two
LookupResults(writer) ==
    {<<LookupEntry(writer, 1, a)>> : a \in LookupTexts}
    \cup {<<LookupEntry(writer, 1, a), LookupEntry(writer, 2, b)>> : a, b \in LookupTexts}

NoUpdate == [wb |-> <<>>, writes |-> <<>>]

LookupInit ==
    /\ EnvIdle
    /\ GroupIdle
    /\ scan = ScanIdle
    /\ PipeIdle
    /\ discovery = DiscoveryIdle
    /\ \E w \in LookupWorkbooks, wr \in Writers :
           \E res \in LookupResults(wr) :
               lookup = [pc |-> "ready", writer |-> wr, wbk |-> w,
                         cur |-> ActiveSheet(w), results |-> res,
                         once |-> NoUpdate, twice |-> NoUpdate]

\* _update_excel_with_codes of the writer on the workbook wbk
UpdateExcelWithCodes(writer, wbk, cur, results) ==
    IF writer = "standard" THEN StdUpdate(wbk, cur, results)
    ELSE F41Update(wbk, cur, results)

\* the first call of _update_excel_with_codes
WriteBack ==
    /\ lookup.pc = "ready"
    /\ lookup' = [lookup EXCEPT !.pc = "once",
                     !.once = UpdateExcelWithCodes(lookup.writer, lookup.wbk,
                                                   lookup.cur, lookup.results)]
    /\ UNCHANGED <<scan, discovery>>
    /\ UNCHANGED envVars
    /\ UNCHANGED groupVars
    /\ UNCHANGED pipeVars

\* a second call with the same results on the workbook the first call saved
WriteBackAgain ==
    /\ lookup.pc = "once"
    /\ lookup' = [lookup EXCEPT !.pc = "twice",
                     !.twice = UpdateExcelWithCodes(lookup.writer, lookup.once.wb,
                                                    lookup.cur, lookup.results)]
    /\ UNCHANGED <<scan, discovery>>
    /\ UNCHANGED envVars
    /\ UNCHANGED groupVars
    /\ UNCHANGED pipeVars

LookupNext ==
    \/ WriteBack
    \/ WriteBackAgain

SpecLookup == LookupInit /\ [][LookupNext]_vars

---------------------------------------------------------------------------

(***************************************************************************)
(* Claim about the representatives of FullFormatProcessor.                 *)
(***************************************************************************)

\* the position at which the scan (sheet order, then row order) first met
\* the text
FirstMet(text) ==
    CHOOSE i \in 1..Len(proc.items) :
        /\ proc.items[i].text = text
        /\ \A j \in 1..Len(proc.items) : proc.items[j].text = text => i <= j

\* C26: in FullFormatProcessor the representative of every group, its first
\* element, is the member the scan met first
C26_RepresentativeIsFirstMet ==
    (proc.mode = "full" /\ proc.pc \in {"loop", "classify"})
    => \A g \in 1..Len(proc.groups) :
           \A k \in 1..Len(proc.groups[g]) :
               FirstMet(proc.groups[g][1]) <= FirstMet(proc.groups[g][k])

---------------------------------------------------------------------------

(***************************************************************************)
(* Claims about the text lookup of the write-back.                         *)
(***************************************************************************)

\* the first call of Format41Processor._update_excel_with_codes has returned
F41Done == lookup.pc \in {"once", "twice"} /\ lookup.writer = "format41"

\* the map the call builds from the workbook it is given
LookupMap == cell_content_map(lookup.wbk, lookup.cur)

\* the cell writes of the first call made for the text item
WritesFor(item) ==
    {w \in {lookup.once.writes[k] : k \in 1..Len(lookup.once.writes)} : w.item = item}

\* one of the two strings contains the other
EitherContains(key, n) == Contains(key, n) \/ Contains(n, key)

\* C13: an item is resolved by the exact normalised key; by the no-space key
\* only when the exact key misses; by the fuzzy step only when both miss; and
\* when no step finds a row the item is skipped and no cell is written for it
C13_StepsInOrder ==
    F41Done =>
        \A k \in 1..Len(lookup.results) :
            LET item == lookup.results[k].val.item
                n == normalize_cell_text(item)
                ns == RemoveSpaces(n)
                m == LookupMap
                W == WritesFor(item)
            IN  IF DictHas(m, n)
                THEN /\ W # {}
                     /\ \A w \in W : /\ w.step = "exact"
                                      /\ [sheet |-> w.sheet, row |-> w.row] = DictGet(m, n)
                ELSE IF DictHas(m, ns)
                THEN /\ W # {}
                     /\ \A w \in W : /\ w.step = "nospace"
                                      /\ [sheet |-> w.sheet, row |-> w.row] = DictGet(m, ns)
                ELSE /\ \A w \in W : /\ w.step = "fuzzy"
                                      /\ EitherContains(w.key, n)
                                      /\ [sheet |-> w.sheet, row |-> w.row] = DictGet(m, w.key)
                     /\ (\A j \in 1..Len(m) : ~EitherContains(m[j].key, n)) => W = {}

\* an item found by the no-space key although the map holds other keys, and
\* another item that no step finds
C13_Witness ==
    /\ F41Done
    /\ \E w \in {lookup.once.writes[k] : k \in 1..Len(lookup.once.writes)} :
           /\ w.step = "nospace"
           /\ ~DictHas(LookupMap, normalize_cell_text(w.item))
    /\ \E k \in 1..Len(lookup.results) : WritesFor(lookup.results[k].val.item) = {}

\* the place of sheet s in the order the sheets are scanned
ScanPos(wbk, cur, s) ==
    CHOOSE i \in 1..Len(wbk) : sheets_to_search(wbk, cur)[i] = s

\* cell a is scanned before cell b
ScannedBefore(wbk, cur, a, b) ==
    \/ ScanPos(wbk, cur, a.sheet) < ScanPos(wbk, cur, b.sheet)
    \/ a.sheet = b.sheet /\ a.row < b.row

\* C14: a text that occurs in several rows or sheets is resolved to its first
\* occurrence in scan order: no row scanned before the row written holds the
\* same normalised text
C14_FirstOccurrenceWins ==
    F41Done =>
        \A k \in 1..Len(lookup.once.writes) :
            LET w == lookup.once.writes[k]
                n == normalize_cell_text(w.item)
            IN  w.step = "exact" =>
                    ~ \E s \in 1..Len(lookup.wbk) : \E r \in 1..Len(lookup.wbk[s]) :
                          /\ normalize_cell_text(lookup.wbk[s][r].item) = n
                          /\ ScannedBefore(lookup.wbk, lookup.cur,
                                           [sheet |-> s, row |-> r],
                                           [sheet |-> w.sheet, row |-> w.row])

---------------------------------------------------------------------------

(***************************************************************************)
(* Claims about the fuzzy step and about repeating the write-back.         *)
(***************************************************************************)

\* the keys of the map m the claim lets the fuzzy step accept for the
\* normalised item n: one string contains the other and
\* 5 * len(shorter) >= 4 * len(longer)
AcceptableAtBoundary(m, n) ==
    {j \in 1..Len(m) : /\ Len(m[j].key) >= 5
                       /\ EitherContains(m[j].key, n)
                       /\ 5 * MinLen(n, m[j].key) >= 4 * MaxLen(n, m[j].key)}

\* the ratio of key i is at most the ratio of key j
RatioAtMost(m, n, i, j) ==
    MinLen(n, m[i].key) * MaxLen(n, m[j].key) <= MinLen(n, m[j].key) * MaxLen(n, m[i].key)

\* C15: when the exact and the no-space key miss, the item is resolved exactly
\* when some key of at least the ratio 0.80, the ratio 0.80 included, contains
\* it or is contained in it, and the key taken is the first of the acceptable
\* keys of the greatest ratio
C15_FuzzyThresholdInclusive ==
    F41Done =>
        \A k \in 1..Len(lookup.results) :
            LET item == lookup.results[k].val.item
                n == normalize_cell_text(item)
                m == LookupMap
                W == WritesFor(item)
                Acc == AcceptableAtBoundary(m, n)
            IN  (~DictHas(m, n) /\ ~DictHas(m, RemoveSpaces(n))) =>
                    /\ (W # {}) <=> (Acc # {})
                    /\ \A w \in W :
                           \E j \in Acc :
                               /\ m[j].key = w.key
                               /\ \A i \in Acc :
                                      /\ RatioAtMost(m, n, i, j)
                                      /\ RatioAtMost(m, n, j, i) => j <= i

\* C16: the fuzzy step never resolves an item to a key of fewer than 5
\* normalised characters
C16_FuzzyKeyAtLeastFive ==
    F41Done =>
        \A k \in 1..Len(lookup.once.writes) :
            lookup.once.writes[k].step = "fuzzy" => Len(lookup.once.writes[k].key) >= 5

\* an item resolved by the fuzzy step although the map holds a shorter key that
\* the item contains
C16_Witness ==
    /\ F41Done
    /\ \E k \in 1..Len(lookup.once.writes) :
           LET w == lookup.once.writes[k]
           IN  /\ w.step = "fuzzy"
               /\ \E j \in 1..Len(LookupMap) :
                      /\ Len(LookupMap[j].key) < 5
                      /\ Contains(normalize_cell_text(w.item), LookupMap[j].key)

\* the cells a call of the writer has assigned
CellsWritten(upd) ==
    {[sheet |-> upd.writes[k].sheet, row |-> upd.writes[k].row] : k \in 1..Len(upd.writes)}

---------------------------------------------------------------------------

(***************************************************************************)
(* Column discovery: _find_columns_in_excel of Format41Processor and       *)
(* FullFormatProcessor on one sheet.  Here a sheet is a grid, a sequence   *)
(* of rows that are sequences of cell values; its width is max_column.     *)
(* 'наименов' is written "naimenov", 'код' "kod" and 'окп' "okp".          *)
(***************************************************************************)

D_Name == <<"N", "a", "i", "m", "e", "n", "o", "v", ".">>
D_Code == <<"K", "o", "d", " ", "O", "K", "P", "D">>
D_Data == <<"b", "o", "l", "t">>
D_Label == <<"K", "o", "d", " ", "O", "K", "P", "/", "O", "K", "P", "D", "2">>
D_Both == <<"N", "a", "i", "m", "e", "n", "o", "v", ".", ",", " ", "k", "o", "d", " ", "O", "K", "P">>
KW_naimenovanie == <<"n", "a", "i", "m", "e", "n", "o", "v", "a", "n", "i", "e">>
KW_naimenov == <<"n", "a", "i", "m", "e", "n", "o", "v">>
KW_kod == <<"k", "o", "d">>
KW_okp == <<"o", "k", "p">>
KW_okpd == <<"o", "k", "p", "d">>

\* min(a, b)
Min(a, b) == IF a <= b THEN a ELSE b

\* cell_text == "наименование" or "наименов" in cell_text
IsNameHeader(value) ==
    LET cell_text == lower(strip(value))
    IN  cell_text = KW_naimenovanie \/ Contains(cell_text, KW_naimenov)

\* "код" in cell_text and ("окп" in cell_text or "окпд" in cell_text)
IsCodeHeader(value) ==
    LET cell_text == lower(strip(value))
    IN  /\ Contains(cell_text, KW_kod)
        /\ Contains(cell_text, KW_okp) \/ Contains(cell_text, KW_okpd)

max_row(grid) == Len(grid)

max_column(grid) == Len(grid[1])

\* the loops over the first rows and columns looking for the two headers; the
\* search ends as soon as both are known
RECURSIVE HeaderScan(_, _, _, _, _)
HeaderScan(grid, row, col, name_column, code_column) ==
    IF row > Min(15, max_row(grid)) THEN [name |-> name_column, code |-> code_column]
    ELSE IF col > Min(20, max_column(grid) + 1) - 1
         THEN HeaderScan(grid, row + 1, 1, name_column, code_column)
    ELSE IF ~Truthy(grid[row][col])
         THEN HeaderScan(grid, row, col + 1, name_column, code_column)
    ELSE LET nc == IF IsNameHeader(grid[row][col]) THEN col ELSE name_column
             cc == IF IsCodeHeader(grid[row][col]) THEN col ELSE code_column
         IN  IF nc # 0 /\ cc # 0 THEN [name |-> nc, code |-> cc]
             ELSE HeaderScan(grid, row, col + 1, nc, cc)

\* the column col holds no value in the rows probed below the header rows
ColumnEmpty(grid, col, nhr) ==
    \A row \in (nhr + 1)..(Min(nhr + 10, max_row(grid) + 1) - 1) : ~Truthy(grid[row][col])

\* the columns after the item column that are tried for the codes
CandidateColumns(grid, name_column) ==
    (name_column + 1)..(Min(name_column + 5, max_column(grid) + 1) - 1)

\* the header label is written into column col, in the first of the header
\* rows whose cell of the item column holds a value
WriteLabel(grid, name_column, col, nhr) ==
    LET rows == {r \in 1..Min(nhr, max_row(grid)) : Truthy(grid[r][name_column])}
    IN  IF rows = {} THEN grid
        ELSE LET row == CHOOSE r \in rows : \A q \in rows : r <= q
             IN  [grid EXCEPT ![row][col] = D_Label]

\* _find_columns_in_excel: the return value, the two column indexes (0 for
\* None) and the sheet as it is left
find_columns_in_excel(grid, nhr) ==
    LET h == HeaderScan(grid, 1, 1, 0, 0)
        empty == {c \in CandidateColumns(grid, h.name) : ColumnEmpty(grid, c, nhr)}
    IN  IF h.name # 0 /\ h.code # 0
        THEN [ok |-> TRUE, name_column |-> h.name, code_column |-> h.code, sheet |-> grid]
        ELSE IF h.name # 0 /\ empty # {}
        THEN LET col == CHOOSE c \in empty : \A d \in empty : c <= d
             IN  [ok |-> TRUE, name_column |-> h.name, code_column |-> col,
                  sheet |-> WriteLabel(grid, h.name, col, nhr)]
        ELSE [ok |-> FALSE, name_column |-> h.name, code_column |-> 0, sheet |-> grid]

\* the values a cell of the sheet is drawn from
DiscoveryCells == {NaN, D_Name, D_Code, D_Data}

\* the sheets: two rows of one, two or three columns, three rows of two
\* columns without a code header, and sheets whose first cell is a header
\* naming both the item and the code
DiscoveryGrids ==
    {<<<<a>>, <<b>>>> : a, b \in DiscoveryCells}
    \cup {<<<<a, b>>, <<c, d>>>> : a, b, c, d \in DiscoveryCells}
    \cup {<<<<a, b, c>>, <<d, e, f>>>> : a, b, c, d, e, f \in DiscoveryCells}
    \cup {<<<<a, b>>, <<c, d>>, <<e, f>>>> : a, b, c, d, e, f \in {NaN, D_Name, D_Data}}
    \cup {<<<<D_Both, a>>, <<b, c>>>> : a, b, c \in {NaN, D_Data}}

DiscoveryInit ==
    /\ EnvIdle
    /\ GroupIdle
    /\ scan = ScanIdle
    /\ PipeIdle
    /\ lookup = LookupIdle
    /\ \E grid \in DiscoveryGrids, nhr \in 0..MaxHeaderRows :
           discovery = [pc |-> "ready", sheet |-> grid, num_header_rows |-> nhr,
                        found |-> [ok |-> FALSE, name_column |-> 0, code_column |-> 0,
                                   sheet |-> grid],
                        now |-> grid, again |-> <<>>, coded |-> {}]

\* the first call of _find_columns_in_excel on the sheet (the scan pass of
\* FullFormatProcessor._process_file, step 1); `now` is the sheet of the
\* workbook kept in memory, `sheet` the one of the file that pandas reads
FindColumns ==
    /\ discovery.pc = "ready"
    /\ LET f == find_columns_in_excel(discovery.sheet, discovery.num_header_rows)
       IN  discovery' = [discovery EXCEPT !.pc = "done", !.found = f, !.now = f.sheet]
    /\ UNCHANGED <<scan, lookup>>
    /\ UNCHANGED envVars
    /\ UNCHANGED groupVars
    /\ UNCHANGED pipeVars

\* the sheet rows whose item-column cell _collect_items_from_sheet keeps
\* (DataFrame index idx is sheet row idx + 2)
ItemRows(grid, name_column, nhr) ==
    {r \in 2..max_row(grid) : RowBranch(r - 2, grid[r][name_column], nhr) = "data"}

\* code_cell.value = data['code'] for the rows of the sheet's updates
WriteCodes(grid, rows, col, code) ==
    [r \in 1..Len(grid) |->
        IF r \in rows /\ ~FormulaGuard(grid[r][col])
        THEN [grid[r] EXCEPT ![col] = code]
        ELSE grid[r]]

\* step 5 for the sheet: it has items with a code (the rows `coded`), the
\* columns are looked for again and the codes are written
UpdateSheet ==
    /\ discovery.pc = "done"
    /\ discovery.found.ok
    /\ \E coded \in SUBSET ItemRows(discovery.sheet, discovery.found.name_column,
                                     discovery.num_header_rows) :
           /\ coded # {}
           /\ LET f == find_columns_in_excel(discovery.now, discovery.num_header_rows)
                  written == IF f.ok
                             THEN WriteCodes(f.sheet, coded, f.code_column, C_B)
                             ELSE f.sheet
              IN  discovery' = [discovery EXCEPT
                                   !.pc = "updated",
                                   !.again = Append(@, f),
                                   !.now = written,
                                   !.coded = IF f.ok THEN coded ELSE {}]
    /\ UNCHANGED <<scan, lookup>>
    /\ UNCHANGED envVars
    /\ UNCHANGED groupVars
    /\ UNCHANGED pipeVars

\* _adjust_column_width for the sheet: the columns are looked for once more
AdjustColumnWidth ==
    /\ discovery.pc \in {"done", "updated"}
    /\ LET f == find_columns_in_excel(discovery.now, discovery.num_header_rows)
       IN  discovery' = [discovery EXCEPT
                            !.pc = "adjusted",
                            !.again = Append(@, f),
                            !.now = f.sheet]
    /\ UNCHANGED <<scan, lookup>>
    /\ UNCHANGED envVars
    /\ UNCHANGED groupVars
    /\ UNCHANGED pipeVars

DiscoveryNext ==
    \/ FindColumns
    \/ UpdateSheet
    \/ AdjustColumnWidth

SpecDiscovery == DiscoveryInit /\ [][DiscoveryNext]_vars

---------------------------------------------------------------------------

(***************************************************************************)
(* Claims about column discovery.                                          *)
(***************************************************************************)

\* some cell of the sheet holds a header of the item column
NameHeaderIn(grid) ==
    \E r \in 1..Len(grid) : \E c \in 1..Len(grid[r]) :
        Truthy(grid[r][c]) /\ IsNameHeader(grid[r][c])

\* some cell of the sheet holds a header of the code column
CodeHeaderIn(grid) ==
    \E r \in 1..Len(grid) : \E c \in 1..Len(grid[r]) :
        Truthy(grid[r][c]) /\ IsCodeHeader(grid[r][c])

\* C20: on a sheet with an item-name header and no code header, discovery
\* succeeds with a code column: the first column after the item column that
\* is empty in the probed rows, with the header label written into it
C20_ItemColumnGetsCodeColumn ==
    (/\ discovery.pc = "done"
     /\ NameHeaderIn(discovery.sheet)
     /\ ~CodeHeaderIn(discovery.sheet))
    => LET f == discovery.found
       IN  /\ f.ok
           /\ f.name_column # 0
           /\ f.code_column > f.name_column
           /\ f.code_column <= max_column(f.sheet)
           /\ \A c \in (f.name_column + 1)..f.code_column :
                  ColumnEmpty(discovery.sheet, c, discovery.num_header_rows)
                      <=> c = f.code_column
           /\ \E r \in 1..Len(f.sheet) : f.sheet[r][f.code_column] = D_Label

---------------------------------------------------------------------------

(***************************************************************************)
(* Column discovery of StandardProcessor: header scan, the search of row 1 *)
(* for a code column, the new column after the item column, and the        *)
(* search by content.  'окпд' is written "okpd", 'код окп' "kod okp" and   *)
(* the label 'ОКПД код' "OKPD kod".                                        *)
(***************************************************************************)

S_Kod == <<"K", "o", "d">>
S_NameKod == <<"N", "a", "i", "m", "e", "n", "o", "v", ".", " ", "(", "k", "o", "d", ")">>
S_Label == <<"O", "K", "P", "D", " ", "k", "o", "d">>
S_Long == <<"b", "o", "l", "t", " ", "M", "6">>
S_Six == <<"b", "o", "l", "t", "M", "6">>
S_Five == <<"b", "o", "l", "t", "s">>
S_Padded == <<" ", " ", "b", "o", "l", "t", " ", " ">>
S_Number == <<"1", "2", "3", "4", "5", "6", "7">>
KW_kod_okp == <<"k", "o", "d", " ", "o", "k", "p">>

\* isinstance(cell_value, str): a cell whose value is made of digits only is
\* held by the workbook as a number
isinstance_str(value) == ~isdigit(value)

\* "окпд" in cell_text or "код окп" in cell_text
StdIsCodeHeader(value) ==
    LET cell_text == lower(strip(value))
    IN  Contains(cell_text, KW_okpd) \/ Contains(cell_text, KW_kod_okp)

\* the loops over the first rows and columns of StandardProcessor
RECURSIVE StdHeaderScan(_, _, _, _, _)
StdHeaderScan(grid, row, col, name_column, code_column) ==
    IF row > Min(15, max_row(grid)) THEN [name |-> name_column, code |-> code_column]
    ELSE IF col > Min(20, max_column(grid) + 1) - 1
         THEN StdHeaderScan(grid, row + 1, 1, name_column, code_column)
    ELSE IF ~Truthy(grid[row][col])
         THEN StdHeaderScan(grid, row, col + 1, name_column, code_column)
    ELSE LET nc == IF IsNameHeader(grid[row][col]) THEN col ELSE name_column
             cc == IF StdIsCodeHeader(grid[row][col]) THEN col ELSE code_column
         IN  IF nc # 0 /\ cc # 0 THEN [name |-> nc, code |-> cc]
             ELSE StdHeaderScan(grid, row, col + 1, nc, cc)

\* the columns of row 1 whose cell holds 'код'
KodColumns(grid) ==
    {c \in 1..max_column(grid) : Truthy(grid[1][c]) /\ Contains(lower(grid[1][c]), KW_kod)}

\* sheet.cell(row, column).value = value; a column beyond max_column is added
\* to the sheet
SetCell(grid, row, col, value) ==
    LET wide == IF col <= max_column(grid) THEN grid
                ELSE [r \in 1..Len(grid) |->
                         grid[r] \o [c \in 1..(col - max_column(grid)) |-> NaN]]
    IN  [wide EXCEPT ![row][col] = value]

\* if text_counts[name_column] > 3
DensityThreshold == 3

\* text_counts[col]: the string cells of the column longer than 5 characters
text_count(grid, col) ==
    Cardinality({row \in 1..(Min(20, max_row(grid) + 1) - 1) :
                    /\ Truthy(grid[row][col])
                    /\ isinstance_str(grid[row][col])
                    /\ Len(strip(grid[row][col])) > 5})

\* the columns text_counts has a key for
DensityColumns(grid) == 1..(Min(10, max_column(grid) + 1) - 1)

\* max(text_counts.items(), key=lambda x: x[1])[0]: the first column with
\* the greatest count
DensityBest(grid) ==
    CHOOSE c \in DensityColumns(grid) :
        /\ \A d \in DensityColumns(grid) : text_count(grid, d) <= text_count(grid, c)
        /\ \A d \in DensityColumns(grid) :
               text_count(grid, d) = text_count(grid, c) => c <= d

\* if text_counts[name_column] > 3
DensityAccepts(count) == count > DensityThreshold

\* StandardProcessor._find_columns_in_excel: the return value, the two column
\* indexes (0 for None), the sheet as it is left and the branch that decided
std_find_columns_in_excel(grid) ==
    LET h == StdHeaderScan(grid, 1, 1, 0, 0)
    IN  IF h.name # 0 /\ h.code # 0
        THEN [ok |-> TRUE, name_column |-> h.name, code_column |-> h.code,
              sheet |-> grid, by |-> "headers"]
        ELSE IF h.name # 0
        THEN IF KodColumns(grid) # {}
             THEN [ok |-> TRUE, name_column |-> h.name,
                   code_column |-> CHOOSE c \in KodColumns(grid) :
                                      \A d \in KodColumns(grid) : c <= d,
                   sheet |-> grid, by |-> "row1"]
             ELSE [ok |-> TRUE, name_column |-> h.name, code_column |-> h.name + 1,
                   sheet |-> IF Truthy(grid[1][h.name])
                             THEN SetCell(grid, 1, h.name + 1, S_Label)
                             ELSE grid,
                   by |-> "new"]
        ELSE IF DensityColumns(grid) # {}
                /\ DensityAccepts(text_count(grid, DensityBest(grid)))
        THEN [ok |-> TRUE, name_column |-> DensityBest(grid),
              code_column |-> DensityBest(grid) + 1, sheet |-> grid, by |-> "content"]
        ELSE [ok |-> FALSE, name_column |-> 0, code_column |-> 0, sheet |-> grid,
              by |-> "none"]

\* the rows of the sheets searched by content
DensityRows == 4

\* sheets of two columns without a header: every cell short or long, and the
\* same with the first cell missing, a number or padded with blanks
DensityGrids ==
    LET plain == [1..DensityRows -> [1..2 -> {S_Five, S_Six}]]
    IN  plain \cup {[g EXCEPT ![1][1] = x] : g \in plain,
                                            x \in {NaN, S_Number, S_Padded, S_Long}}

\* sheets of two rows and two columns with header cells
StdHeaderGrids ==
    {<<<<a, b>>, <<c, d>>>> : a, b, c, d \in {NaN, D_Name, D_Code, S_Kod, S_NameKod, D_Data}}

StdDiscoveryInit ==
    /\ EnvIdle
    /\ GroupIdle
    /\ scan = ScanIdle
    /\ PipeIdle
    /\ lookup = LookupIdle
    /\ \E grid \in DensityGrids \cup StdHeaderGrids :
           discovery = [pc |-> "ready", sheet |-> grid,
                        found |-> [ok |-> FALSE, name_column |-> 0, code_column |-> 0,
                                   sheet |-> grid, by |-> "none"]]

\* one call of StandardProcessor._find_columns_in_excel
StdFindColumns ==
    /\ discovery.pc = "ready"
    /\ discovery' = [discovery EXCEPT
                        !.pc = "done",
                        !.found = std_find_columns_in_excel(discovery.sheet)]
    /\ UNCHANGED <<scan, lookup>>
    /\ UNCHANGED envVars
    /\ UNCHANGED groupVars
    /\ UNCHANGED pipeVars

StdDiscoveryNext == StdFindColumns

SpecStdDiscovery == StdDiscoveryInit /\ [][StdDiscoveryNext]_vars

---------------------------------------------------------------------------

(***************************************************************************)
(* Claims about the column discovery of StandardProcessor.                 *)
(***************************************************************************)

\* C22: when no item header is found, the search by content takes the column
\* with the most string cells longer than 5 characters; it succeeds when
\* that column has at least 3 such cells and fails only when it has fewer
C22_DensityNeedsThree ==
    (/\ discovery.pc = "done"
     /\ ~NameHeaderIn(discovery.sheet))
    => LET best == DensityBest(discovery.sheet)
           f == discovery.found
       IN  /\ f.ok <=> text_count(discovery.sheet, best) >= 3
           /\ f.ok => /\ f.name_column = best
                      /\ \A c \in DensityColumns(discovery.sheet) :
                             text_count(discovery.sheet, c)
                                 <= text_count(discovery.sheet, f.name_column)

---------------------------------------------------------------------------

\* C28: after a successful discovery the code column is not the item column
C28_CodeColumnIsNotItemColumn ==
    (discovery.pc = "done" /\ discovery.found.ok)
        => discovery.found.code_column # discovery.found.name_column

\* C21: every later call of _find_columns_in_excel on a sheet (update pass,
\* column-width pass) returns the item column and the code column of the
\* first call
C21_DiscoveryStablePerSheet ==
    discovery.pc \in {"updated", "adjusted"} =>
        \A i \in 1..Len(discovery.again) :
            /\ discovery.again[i].ok = discovery.found.ok
            /\ discovery.again[i].name_column = discovery.found.name_column
            /\ discovery.again[i].code_column = discovery.found.code_column

---------------------------------------------------------------------------

(***************************************************************************)
(* The backup copy '<input>_original' of one input path over a sequence of *)
(* processor constructions and runs.  The content of the input file is the *)
(* number of runs that have saved into it (0: the pristine upload); the    *)
(* backup is NoBackup while the file does not exist.                       *)
(***************************************************************************)

MaxConstructions == 3
MaxMutations == 3

NoBackup == 0 - 1

\* the processors that keep a backup of their input
BackupKinds == {"standard", "format41", "full"}

BackupInit ==
    /\ GroupIdle
    /\ scan = ScanIdle
    /\ PipeIdle
    /\ lookup = LookupIdle
    /\ discovery = DiscoveryIdle
    /\ runs = [pc |-> "idle"]
    /\ cache = [pc |-> "idle"]
    /\ dec = [pc |-> "idle"]
    /\ gen = [pc |-> "idle"]
    /\ cross = [pc |-> "idle"]
    /\ bak = [pc |-> "live", input |-> 0, backup |-> NoBackup, kind |-> "none",
              constructed |-> 0, copies |-> 0, failed_copies |-> 0]

\* _create_backup_file, called by the constructor: the copy is made only if
\* no file exists at the backup path, and a copy that raises is only logged
CreateBackupFile ==
    /\ bak.pc = "live"
    /\ bak.constructed < MaxConstructions
    /\ \E kind \in BackupKinds, copy_ok \in BOOLEAN :
           bak' = [bak EXCEPT
                      !.kind = kind,
                      !.constructed = @ + 1,
                      !.backup = IF bak.backup = NoBackup /\ copy_ok
                                 THEN bak.input ELSE @,
                      !.copies = IF bak.backup = NoBackup /\ copy_ok THEN @ + 1 ELSE @,
                      !.failed_copies = IF bak.backup = NoBackup /\ ~copy_ok
                                        THEN @ + 1 ELSE @]
    /\ UNCHANGED <<scan, lookup, discovery, runs, cache, dec, gen, cross>>
    /\ UNCHANGED groupVars
    /\ UNCHANGED pipeVars

\* a run of the constructed processor saves the workbook into the input path
RunSavesInput ==
    /\ bak.pc = "live"
    /\ bak.kind # "none"
    /\ bak.input < MaxMutations
    /\ bak' = [bak EXCEPT !.input = @ + 1]
    /\ UNCHANGED <<scan, lookup, discovery, runs, cache, dec, gen, cross>>
    /\ UNCHANGED groupVars
    /\ UNCHANGED pipeVars

BackupNext ==
    \/ CreateBackupFile
    \/ RunSavesInput

SpecBackup == BackupInit /\ [][BackupNext]_vars

\* C23: once the input file has been changed the backup exists and holds
\* the content the input had before its first change, whatever constructions
\* and runs came since
C23_BackupHoldsPristineInput ==
    (bak.pc = "live" /\ bak.input > 0) => bak.backup = 0

---------------------------------------------------------------------------

(***************************************************************************)
(* Several interface handlers (process_standard_file,                      *)
(* process_format_41_file) running at once on the one stop flag of app.py, *)
(* and cancel_process.  A handler clears the flag, constructs its          *)
(* processor and hands it the flag; process() clears the flag again and    *)
(* the group loop tests it before every group.                             *)
(***************************************************************************)

MaxRuns == 2
RunGroups == 2

RunIds == 1..MaxRuns

\* the handler has not been started
RunIdle == [pc |-> "idle", kind |-> "none", g |-> 0, pending |-> FALSE, missed |-> FALSE]

RunsInit ==
    /\ GroupIdle
    /\ scan = ScanIdle
    /\ PipeIdle
    /\ lookup = LookupIdle
    /\ discovery = DiscoveryIdle
    /\ bak = [pc |-> "idle"]
    /\ cache = [pc |-> "idle"]
    /\ dec = [pc |-> "idle"]
    /\ gen = [pc |-> "idle"]
    /\ cross = [pc |-> "idle"]
    /\ runs = [pc |-> "live", flag |-> FALSE, run |-> [i \in RunIds |-> RunIdle],
               requests |-> 0]

\* the run is inside the group loop of its processor
InProgress(r) == r.pc \in {"boundary", "ingroup"}

\* process_standard_file / process_format_41_file up to the construction of
\* the processor: stop_event.clear()
HandlerStart(i) ==
    /\ runs.pc = "live"
    /\ runs.run[i].pc = "idle"
    /\ \E kind \in {"standard", "full"} :
           runs' = [runs EXCEPT !.flag = FALSE,
                                !.run[i] = [RunIdle EXCEPT !.pc = "created", !.kind = kind]]
    /\ UNCHANGED <<scan, lookup, discovery, bak, cache, dec, gen, cross>>
    /\ UNCHANGED groupVars
    /\ UNCHANGED pipeVars

\* BaseProcessor.process up to the group loop: self.stop_event.clear() on
\* the flag the handler passed in
ProcessStart(i) ==
    /\ runs.pc = "live"
    /\ runs.run[i].pc = "created"
    /\ runs' = [runs EXCEPT !.flag = FALSE, !.run[i].pc = "boundary"]
    /\ UNCHANGED <<scan, lookup, discovery, bak, cache, dec, gen, cross>>
    /\ UNCHANGED groupVars
    /\ UNCHANGED pipeVars

\* the head of the group loop: `if self.stop_event.is_set(): break`, else
\* the next group is started
GroupBoundary(i) ==
    /\ runs.pc = "live"
    /\ runs.run[i].pc = "boundary"
    /\ runs' = [runs EXCEPT !.run[i] =
                   IF runs.flag THEN [@ EXCEPT !.pc = "stopped", !.pending = FALSE]
                   ELSE IF @.g = RunGroups THEN [@ EXCEPT !.pc = "finished"]
                   ELSE [@ EXCEPT !.pc = "ingroup", !.g = @ + 1,
                                  !.missed = @ \/ runs.run[i].pending]]
    /\ UNCHANGED <<scan, lookup, discovery, bak, cache, dec, gen, cross>>
    /\ UNCHANGED groupVars
    /\ UNCHANGED pipeVars

\* the body of the group loop
GroupBody(i) ==
    /\ runs.pc = "live"
    /\ runs.run[i].pc = "ingroup"
    /\ runs' = [runs EXCEPT !.run[i].pc = "boundary"]
    /\ UNCHANGED <<scan, lookup, discovery, bak, cache, dec, gen, cross>>
    /\ UNCHANGED groupVars
    /\ UNCHANGED pipeVars

\* cancel_process: stop_event.set(); `pending` notes the runs in progress
cancel_process ==
    /\ runs.pc = "live"
    /\ runs.requests < MaxRuns
    /\ runs' = [runs EXCEPT
                   !.flag = TRUE,
                   !.requests = @ + 1,
                   !.run = [i \in RunIds |->
                               IF InProgress(runs.run[i])
                               THEN [runs.run[i] EXCEPT !.pending = TRUE]
                               ELSE runs.run[i]]]
    /\ UNCHANGED <<scan, lookup, discovery, bak, cache, dec, gen, cross>>
    /\ UNCHANGED groupVars
    /\ UNCHANGED pipeVars

RunsNext ==
    \/ \E i \in RunIds : HandlerStart(i)
    \/ \E i \in RunIds : ProcessStart(i)
    \/ \E i \in RunIds : GroupBoundary(i)
    \/ \E i \in RunIds : GroupBody(i)
    \/ cancel_process

SpecRuns == RunsInit /\ [][RunsNext]_vars

\* C24: a run that was in progress when a cancellation was requested starts
\* no further group, also when another run is started in between
C24_RequestedCancellationIsObserved ==
    runs.pc = "live" => \A i \in RunIds : ~runs.run[i].missed

---------------------------------------------------------------------------

(***************************************************************************)
(* The look-up cache: callers of fetch_okpd2_batch on the module-level     *)
(* dictionary CACHE.  A call first takes from CACHE the terms it finds     *)
(* there, then fetches the remaining terms one by one and stores what it   *)
(* got; when the browser cannot be used every remaining term gets the      *)
(* generic entry.  `writes` counts the assignments CACHE[term] = ...;      *)
(* `repeated` notes a call whose remaining terms held one term twice and   *)
(* `overlapped` a call entered while another one was fetching.             *)
(***************************************************************************)

MaxCallers == 2
MaxTerms == 2

CallerIds == 1..MaxCallers

Terms == {"bolt", "nut"}

\* the lists of terms a call is given
TermLists == UNION {[1..n -> Terms] : n \in 1..MaxTerms}

\* the term is not a key of CACHE
NotCached == "none"

CallerIdle == [pc |-> "idle", terms |-> <<>>, results |-> {}, remaining |-> <<>>, k |-> 0]

CacheInit ==
    /\ GroupIdle
    /\ scan = ScanIdle
    /\ PipeIdle
    /\ lookup = LookupIdle
    /\ discovery = DiscoveryIdle
    /\ bak = [pc |-> "idle"]
    /\ runs = [pc |-> "idle"]
    /\ dec = [pc |-> "idle"]
    /\ gen = [pc |-> "idle"]
    /\ cross = [pc |-> "idle"]
    /\ \E cached \in SUBSET Terms :
           cache = [pc |-> "live",
                    CACHE |-> [t \in Terms |-> IF t \in cached THEN "items" ELSE NotCached],
                    writes |-> [t \in Terms |-> 0],
                    caller |-> [i \in CallerIds |-> CallerIdle],
                    repeated |-> FALSE, overlapped |-> FALSE]

\* the elements of the list from position k on
RECURSIVE SeqFilter(_, _, _)
SeqFilter(seq, k, keep) ==
    IF k > Len(seq) THEN <<>>
    ELSE (IF seq[k] \in keep THEN <<seq[k]>> ELSE <<>>) \o SeqFilter(seq, k + 1, keep)

\* CACHE[term] = value
CacheStore(c, term, value) ==
    [c EXCEPT !.CACHE[term] = value, !.writes[term] = @ + 1]

\* fetch_okpd2_batch up to `remaining_terms`: the loop over the terms that
\* takes the cached ones, and the list of the others
CheckCache(i) ==
    /\ cache.pc = "live"
    /\ cache.caller[i].pc = "idle"
    /\ \E terms \in TermLists :
           LET hits == {t \in Terms : cache.CACHE[t] # NotCached}
               remaining == SeqFilter(terms, 1, Terms \ hits)
           IN  cache' = [cache EXCEPT
                            !.caller[i] =
                                [pc |-> IF remaining = <<>> THEN "returned" ELSE "fetch",
                                 terms |-> terms,
                                 results |-> {terms[k] : k \in 1..Len(terms)} \cap hits,
                                 remaining |-> remaining, k |-> 1],
                            !.repeated = @ \/ \E a, b \in 1..Len(remaining) :
                                                  a # b /\ remaining[a] = remaining[b],
                            !.overlapped = @ \/ \E j \in CallerIds \ {i} :
                                                    cache.caller[j].pc = "fetch"]
    /\ UNCHANGED <<scan, lookup, discovery, bak, runs, dec, gen, cross>>
    /\ UNCHANGED groupVars
    /\ UNCHANGED pipeVars

\* one iteration of `for term in remaining_terms`: the page gives items, no
\* item, or the fetch raises; every branch stores an entry for the term
FetchTerm(i) ==
    /\ cache.pc = "live"
    /\ cache.caller[i].pc = "fetch"
    /\ LET c == cache.caller[i]
           term == c.remaining[c.k]
       IN  \E got \in {"items", "generic"} :
               cache' = [CacheStore(cache, term, got) EXCEPT !.caller[i] =
                            [c EXCEPT !.results = @ \cup {term},
                                      !.k = @ + 1,
                                      !.pc = IF c.k = Len(c.remaining)
                                             THEN "returned" ELSE "fetch"]]
    /\ UNCHANGED <<scan, lookup, discovery, bak, runs, dec, gen, cross>>
    /\ UNCHANGED groupVars
    /\ UNCHANGED pipeVars

\* the loop `for term in remaining_terms: if term not in results` of the
\* browser-error and ImportError branches
RECURSIVE FallbackLoop(_, _, _, _)
FallbackLoop(c, remaining, k, results) ==
    IF k > Len(remaining) THEN [cache |-> c, results |-> results]
    ELSE IF remaining[k] \in results
         THEN FallbackLoop(c, remaining, k + 1, results)
    ELSE FallbackLoop(CacheStore(c, remaining[k], "generic"), remaining, k + 1,
                      results \cup {remaining[k]})

\* the browser cannot be started (or playwright cannot be imported): the
\* remaining terms without a result get the generic entry
BrowserError(i) ==
    /\ cache.pc = "live"
    /\ cache.caller[i].pc = "fetch"
    /\ cache.caller[i].k = 1
    /\ LET c == cache.caller[i]
           f == FallbackLoop(cache, c.remaining, 1, c.results)
       IN  cache' = [f.cache EXCEPT !.caller[i] =
                        [c EXCEPT !.results = f.results, !.pc = "returned"]]
    /\ UNCHANGED <<scan, lookup, discovery, bak, runs, dec, gen, cross>>
    /\ UNCHANGED groupVars
    /\ UNCHANGED pipeVars

\* the caller makes its next call (a later call)
NextCall(i) ==
    /\ cache.pc = "live"
    /\ cache.caller[i].pc = "returned"
    /\ \A t \in Terms : cache.writes[t] < MaxTerms + 1
    /\ cache' = [cache EXCEPT !.caller[i] = CallerIdle]
    /\ UNCHANGED <<scan, lookup, discovery, bak, runs, dec, gen, cross>>
    /\ UNCHANGED groupVars
    /\ UNCHANGED pipeVars

CacheNext ==
    \/ \E i \in CallerIds : CheckCache(i)
    \/ \E i \in CallerIds : FetchTerm(i)
    \/ \E i \in CallerIds : BrowserError(i)
    \/ \E i \in CallerIds : NextCall(i)

SpecCache == CacheInit /\ [][CacheNext]_vars

\* C25: no key of the cache is written more than once
C25_AtMostOneWritePerKey ==
    cache.pc = "live" => \A t \in Terms : cache.writes[t] <= 1

---------------------------------------------------------------------------

(***************************************************************************)
(* The generator BaseProcessor.process and the loop of the interface       *)
(* handler that consumes it (app.process_standard_file, lines 81-89, and   *)
(* app.process_format_41_file, lines 119-132).  A yield suspends the       *)
(* generator at the yield statement; the consumer either asks for the next *)
(* value, which resumes the generator after that statement, or returns,    *)
(* which closes the generator where it is suspended.                       *)
(***************************************************************************)

\* the interface handlers that consume process()
GenHandlers == {"process_standard_file", "process_format_41_file"}

ProcessInit ==
    /\ GroupIdle
    /\ scan = ScanIdle
    /\ PipeIdle
    /\ lookup = LookupIdle
    /\ discovery = DiscoveryIdle
    /\ bak = [pc |-> "idle"]
    /\ runs = [pc |-> "idle"]
    /\ cache = [pc |-> "idle"]
    /\ dec = [pc |-> "idle"]
    /\ cross = [pc |-> "idle"]
    /\ \E handler \in GenHandlers, input_file \in BOOLEAN, checkpoint \in BOOLEAN :
           gen = [pc |-> "call", handler |-> handler, input_file |-> input_file,
                  checkpoint |-> checkpoint, stop |-> FALSE, at |-> "none",
                  yields |-> 0, value |-> "unset", step |-> 0,
                  status |-> "started"]

\* a yield statement: the generator hands the value over and is suspended
GenYield(g, at, value) ==
    [g EXCEPT !.pc = "suspended", !.at = at, !.yields = @ + 1, !.value = value]

\* the yield of the checkpoint when the file exists, of None when it does not
GenYieldCheckpoint(g, exists, at_checkpoint, at_none) ==
    IF exists THEN GenYield(g, at_checkpoint, "checkpoint")
    ELSE GenYield(g, at_none, "None")

\* process() without the return of line 128: resumed after the yield of the
\* failed initialisation, the generator goes on to _process_file
AfterYieldFallsThrough(at) ==
    IF at \in {"init_checkpoint", "init_none"} THEN "run" ELSE "returned"

\* where the generator goes on when it is resumed after a yield: the return
\* that follows the yield, or the end of the function body
AfterYield(at) ==
    CASE at = "no_input" -> "returned"
      [] at \in {"init_checkpoint", "init_none"} -> "returned"
      [] at \in {"output", "false_checkpoint", "false_none"} -> "returned"
      [] at \in {"except_checkpoint", "except_none"} -> "returned"

\* process(), from the first next() of the consumer to the test of input_file
ProcessCalled ==
    /\ gen.pc = "call"
    /\ gen' = IF ~gen.input_file
              THEN GenYield([gen EXCEPT !.stop = FALSE], "no_input", "None")
              ELSE [gen EXCEPT !.pc = "try", !.stop = FALSE]
    /\ UNCHANGED <<scan, lookup, discovery, bak, runs, cache, dec, cross>>
    /\ UNCHANGED groupVars
    /\ UNCHANGED pipeVars

\* process(): init_model(), which returns True or False and never raises
ProcessInitModel ==
    /\ gen.pc = "try"
    /\ \E ok \in BOOLEAN :
           gen' = IF ok THEN [gen EXCEPT !.pc = "run"]
                  ELSE GenYieldCheckpoint(gen, gen.checkpoint,
                                          "init_checkpoint", "init_none")
    /\ UNCHANGED <<scan, lookup, discovery, bak, runs, cache, dec, cross>>
    /\ UNCHANGED groupVars
    /\ UNCHANGED pipeVars

\* process(): _process_file() returns True or False or raises; the run may
\* have saved a checkpoint
ProcessFile ==
    /\ gen.pc = "run"
    /\ \E r \in {"True", "False", "raise"}, saved \in BOOLEAN :
           LET exists == gen.checkpoint \/ saved
               g == [gen EXCEPT !.checkpoint = exists]
           IN  gen' = CASE r = "True" -> GenYield(g, "output", "output")
                        [] r = "False" ->
                             GenYieldCheckpoint(g, exists, "false_checkpoint",
                                                "false_none")
                        [] r = "raise" -> [g EXCEPT !.pc = "except"]
    /\ UNCHANGED <<scan, lookup, discovery, bak, runs, cache, dec, cross>>
    /\ UNCHANGED groupVars
    /\ UNCHANGED pipeVars

\* process(): the except clause of the run
ProcessExcept ==
    /\ gen.pc = "except"
    /\ gen' = GenYieldCheckpoint(gen, gen.checkpoint, "except_checkpoint",
                                 "except_none")
    /\ UNCHANGED <<scan, lookup, discovery, bak, runs, cache, dec, cross>>
    /\ UNCHANGED groupVars
    /\ UNCHANGED pipeVars

\* the status the handler shows for a value it received
GenStatus(handler, value, step) ==
    IF value # "None" THEN "success"
    ELSE IF handler = "process_format_41_file" /\ step = 1 THEN "init_error"
    ELSE "error"

\* the body of the handler's for loop for the value just yielded: with the
\* stop flag set the handler returns and the generator is closed at its
\* yield (GeneratorExit is not an Exception, the except clause is not
\* entered); otherwise the handler reports and asks for the next value
GenConsume ==
    /\ gen.pc = "suspended"
    /\ gen' = IF gen.stop
              THEN [gen EXCEPT !.pc = "closed", !.status = "stopped"]
              ELSE [gen EXCEPT !.pc = AfterYield(gen.at),
                               !.step = @ + 1,
                               !.status = GenStatus(gen.handler, gen.value,
                                                    gen.step + 1)]
    /\ UNCHANGED <<scan, lookup, discovery, bak, runs, cache, dec, cross>>
    /\ UNCHANGED groupVars
    /\ UNCHANGED pipeVars

\* cancel_process while the handler is running
GenCancel ==
    /\ gen.pc \in {"call", "try", "run", "except", "suspended"}
    /\ ~gen.stop
    /\ gen' = [gen EXCEPT !.stop = TRUE]
    /\ UNCHANGED <<scan, lookup, discovery, bak, runs, cache, dec, cross>>
    /\ UNCHANGED groupVars
    /\ UNCHANGED pipeVars

ProcessNext ==
    \/ ProcessCalled
    \/ ProcessInitModel
    \/ ProcessFile
    \/ ProcessExcept
    \/ GenConsume
    \/ GenCancel

\* the handler's loop and the calls made by process() run to their end
SpecProcess == ProcessInit /\ [][ProcessNext]_vars /\ WF_vars(ProcessNext)

\* C27: on every path of process() (no input file, init_model failing,
\* _process_file returning True or False, an exception in the run) the
\* generator yields one value, never a second one, and then ends: it returns
\* when it is resumed, or is closed when the handler stops consuming it
C27_ProcessYieldsExactlyOnce ==
    /\ [](gen.yields <= 1)
    /\ [](gen.pc \in {"suspended", "returned", "closed"} => gen.yields = 1)
    /\ <>[](gen.pc \in {"returned", "closed"} /\ gen.yields = 1)

\* the except clause has yielded and the generator, resumed, has returned
C27_Witness ==
    /\ gen.pc = "returned"
    /\ gen.at \in {"except_checkpoint", "except_none"}
    /\ gen.yields = 1

(***************************************************************************)
(* Processor._decide on its own: the candidate entries of a term and the   *)
(* answer of the model go in, (code, name, comment) comes out.  The code   *)
(* '32.99.59.000' is written C_B and its generic label N_B, as above.      *)
(***************************************************************************)

MaxEntries == 2

\* the comment of the final fallback, '(no matching code)'
NoMatchComment == <<"(", "n", ")">>

\* the text s[i..j] has the form \d+(?:\.\d+){1,}
IsDottedNumber(s, i, j) ==
    /\ i < j
    /\ s[i] \in Digits
    /\ s[j] \in Digits
    /\ \A k \in i..j : s[k] \in Digits \cup {"."}
    /\ \E k \in i..j : s[k] = "."
    /\ \A k \in i..(j - 1) : ~(s[k] = "." /\ s[k + 1] = ".")

\* \b on both sides of s[i..j], whose first and last characters are digits
AtWordBoundaries(s, i, j) ==
    /\ i = 1 \/ ~IsWordChar(s[i - 1])
    /\ j = Len(s) \/ ~IsWordChar(s[j + 1])

\* the ends of the matches of the pattern that start at i
CodeEnds(s, i) ==
    {j \in i..Len(s) : IsDottedNumber(s, i, j) /\ AtWordBoundaries(s, i, j)}

\* utils.extract_code: re.search takes the leftmost start, and from it the
\* greedy quantifiers take the longest match; '' when there is no match
extract_code(s) ==
    LET starts == {i \in 1..Len(s) : CodeEnds(s, i) # {}}
    IN  IF starts = {} THEN <<>>
        ELSE LET i == CHOOSE a \in starts : \A b \in starts : a <= b
                 j == CHOOSE a \in CodeEnds(s, i) : \A b \in CodeEnds(s, i) : b <= a
             IN  SubSeq(s, i, j)

\* Processor._decide for a non-empty or empty list of entries and the
\* content of the answer of the model
decide_answer(entries, content) ==
    IF entries = <<>>
    THEN [code |-> C_B, name |-> N_B, comment |-> NoComment]
    ELSE LET code == extract_code(content)
             i == EntryWithCode(entries, code, 0)
             name == IF i # 0 THEN entries[i].name ELSE <<>>
         IN  IF name # <<>>
             THEN [code |-> code, name |-> name, comment |-> NoComment]
             ELSE IF entries[1].name # <<>>
             THEN [code |-> entries[1].code, name |-> entries[1].name,
                   comment |-> FallbackComment]
             ELSE [code |-> C_B, name |-> N_B, comment |-> NoMatchComment]

\* the candidate entries: a code of the site with a name that can be empty
DecideEntryPool == {[code |-> c, name |-> n] : c \in Codes, n \in {<<>>, N_A, N_B}}

\* the sequences over S of length at most n
SeqsUpTo(S, n) == UNION {[1..k -> S] : k \in 0..n}

\* answers of the model: a candidate code alone, a code inside a sentence,
\* two codes, a longer code, a code glued to a letter, and no code at all
DecideAnswers ==
    {C_A,
     C_B,
     <<"k", "o", "d", " ">> \o C_A \o <<".">>,
     C_A \o <<",", " ">> \o C_B,
     C_A \o <<".", "7">>,
     C_A \o <<"x">>,
     <<"n", "e", "t", " ", "7">>}

DecideInit ==
    /\ GroupIdle
    /\ scan = ScanIdle
    /\ PipeIdle
    /\ lookup = LookupIdle
    /\ discovery = DiscoveryIdle
    /\ bak = [pc |-> "idle"]
    /\ runs = [pc |-> "idle"]
    /\ cache = [pc |-> "idle"]
    /\ gen = [pc |-> "idle"]
    /\ cross = [pc |-> "idle"]
    /\ \E entries \in SeqsUpTo(DecideEntryPool, MaxEntries),
          content \in DecideAnswers :
           dec = [pc |-> "input", entries |-> entries, content |-> content,
                  extracted |-> <<>>,
                  result |-> [code |-> <<>>, name |-> <<>>, comment |-> <<>>]]

\* Processor._decide returns
DecideReturns ==
    /\ dec.pc = "input"
    /\ dec' = [dec EXCEPT !.pc = "done",
                          !.extracted = extract_code(dec.content),
                          !.result = decide_answer(dec.entries, dec.content)]
    /\ UNCHANGED <<scan, lookup, discovery, bak, runs, cache, gen, cross>>
    /\ UNCHANGED groupVars
    /\ UNCHANGED pipeVars

\* Processor._decide: self.model.generate raises, which is not caught
DecideGenerateRaises ==
    /\ dec.pc = "input"
    /\ dec.entries # <<>>
    /\ dec' = [dec EXCEPT !.pc = "raised"]
    /\ UNCHANGED <<scan, lookup, discovery, bak, runs, cache, gen, cross>>
    /\ UNCHANGED groupVars
    /\ UNCHANGED pipeVars

DecideNext ==
    \/ DecideReturns
    \/ DecideGenerateRaises

SpecDecide == DecideInit /\ [][DecideNext]_vars

\* C29: the code returned by _decide is the code of a candidate or the fixed
\* fallback code; the label is the name of a candidate with that code or the
\* fixed fallback label; and the comment is empty exactly when there are no
\* candidates or the code extracted from the answer is the code of a
\* candidate whose name is not empty
C29_DecideResult ==
    dec.pc = "done" =>
        LET e == dec.entries
            r == dec.result
        IN  /\ r.code = C_B \/ \E i \in 1..Len(e) : e[i].code = r.code
            /\ \/ r.name = N_B
               \/ \E i \in 1..Len(e) : e[i].code = r.code /\ e[i].name = r.name
            /\ r.comment = NoComment <=>
                   \/ e = <<>>
                   \/ \E i \in 1..Len(e) : /\ e[i].code = dec.extracted
                                           /\ e[i].name # <<>>

(***************************************************************************)
(* The write-back of Format41Processor on a workbook whose sheets are      *)
(* grids with their own column layouts.  _process_file takes the sheets in *)
(* order; for each it discovers the columns of that sheet and writes back  *)
(* the results of that sheet, searching every sheet of the workbook.       *)
(***************************************************************************)

X_Other == <<"G", "r", "u", "p", "p", "a">>

\* the header rows of a sheet of three columns: where the item column and
\* the code column are
CrossHeaders ==
    {<<D_Name, D_Code, X_Other>>, <<X_Other, D_Name, D_Code>>,
     <<D_Code, D_Name, X_Other>>, <<D_Name, X_Other, D_Code>>}

\* a sheet: the header row h, one blank row and one data row with the item a
\* in the item column, the text b in the third column and nothing in the
\* code column
CrossSheet(h, a, b) ==
    <<h, [c \in 1..Len(h) |-> NaN],
      [c \in 1..Len(h) |-> IF h[c] = D_Name THEN a
                            ELSE IF h[c] = D_Code THEN NaN ELSE b]>>

CrossSheets ==
    {CrossSheet(h, a, b) : h \in CrossHeaders, a \in {L_abcde, L_abcdef},
                           b \in {NaN, L_abcde, L_xabcde}}

\* the header rows skipped when the items of a sheet are collected
CrossHeaderRows == 1

CrossInit ==
    /\ GroupIdle
    /\ scan = ScanIdle
    /\ PipeIdle
    /\ lookup = LookupIdle
    /\ discovery = DiscoveryIdle
    /\ bak = [pc |-> "idle"]
    /\ runs = [pc |-> "idle"]
    /\ cache = [pc |-> "idle"]
    /\ dec = [pc |-> "idle"]
    /\ gen = [pc |-> "idle"]
    /\ \E s1 \in CrossSheets, s2 \in CrossSheets :
           cross = [pc |-> "sheet", wbk |-> <<s1, s2>>, before |-> <<s1, s2>>,
                    cur |-> 1, name_column_index |-> 0, code_column_index |-> 0,
                    results |-> <<>>, writes |-> <<>>]

\* every sheet read through one pair of columns: the cell of column
\* name_col as the item and the cell of column col_idx as the code cell
ColumnView(wbk, name_col, col_idx) ==
    [s \in 1..Len(wbk) |->
        [r \in 1..Len(wbk[s]) |-> Cell(wbk[s][r][name_col], wbk[s][r][col_idx])]]

\* results_to_update of the sheet: the item of every row whose frame index
\* (sheet row - 2) is not below the header row count and whose item cell
\* holds a value, with the code _decide returns for it
CrossResults(grid, name_col, nhr) ==
    LET rows == SelectSeq([r \in 1..Len(grid) |-> r],
                          LAMBDA r : r >= 2 /\ ~(r - 2 < nhr)
                                     /\ Truthy(grid[r][name_col]))
    IN  [k \in 1..Len(rows) |->
            [key |-> rows[k] - 2,
             val |-> ResultEntry("format41", decide(<<>>, C_A),
                                 grid[rows[k]][name_col])]]

\* the cell writes of the loop, applied to the sheets at column col_idx
RECURSIVE ApplyWrites(_, _, _, _)
ApplyWrites(wbk, writes, col_idx, k) ==
    IF k > Len(writes) THEN wbk
    ELSE ApplyWrites([wbk EXCEPT ![writes[k].sheet][writes[k].row][col_idx] =
                                     writes[k].code],
                     writes, col_idx, k + 1)

\* _process_file, the head of the loop over the sheets: the indexes are
\* reset and _find_columns_in_excel runs on the sheet; then the items of the
\* sheet are collected and classified
CrossFindColumns ==
    /\ cross.pc = "sheet"
    /\ LET f == find_columns_in_excel(cross.wbk[cross.cur], CrossHeaderRows)
       IN  cross' = [cross EXCEPT
                        !.pc = IF f.ok THEN "found" ELSE "skipped",
                        !.before = cross.wbk,
                        !.wbk[cross.cur] = f.sheet,
                        !.name_column_index = f.name_column,
                        !.code_column_index = f.code_column,
                        !.results = IF f.ok
                                    THEN CrossResults(f.sheet, f.name_column,
                                                      CrossHeaderRows)
                                    ELSE <<>>,
                        !.writes = <<>>]
    /\ UNCHANGED <<scan, lookup, discovery, bak, runs, cache, dec, gen>>
    /\ UNCHANGED groupVars
    /\ UNCHANGED pipeVars

\* _update_excel_with_codes for the sheet: the map is built from column
\* self.name_column_index of every sheet searched and the codes are written
\* into column col_idx of the sheet each item resolves to
CrossUpdate ==
    /\ cross.pc = "found"
    /\ LET view == ColumnView(cross.wbk, cross.name_column_index,
                              cross.code_column_index)
           upd == F41Update(view, cross.cur, cross.results)
       IN  cross' = [cross EXCEPT
                        !.pc = "written",
                        !.wbk = ApplyWrites(cross.wbk, upd.writes,
                                            cross.code_column_index, 1),
                        !.writes = [k \in 1..Len(upd.writes) |->
                                       [sheet |-> upd.writes[k].sheet,
                                        row |-> upd.writes[k].row,
                                        key_column |-> cross.name_column_index,
                                        column |-> cross.code_column_index,
                                        code |-> upd.writes[k].code]]]
    /\ UNCHANGED <<scan, lookup, discovery, bak, runs, cache, dec, gen>>
    /\ UNCHANGED groupVars
    /\ UNCHANGED pipeVars

\* _process_file: the loop goes on to the next sheet
CrossNextSheet ==
    /\ cross.pc \in {"written", "skipped"}
    /\ cross.cur < Len(cross.wbk)
    /\ cross' = [cross EXCEPT !.pc = "sheet", !.cur = @ + 1]
    /\ UNCHANGED <<scan, lookup, discovery, bak, runs, cache, dec, gen>>
    /\ UNCHANGED groupVars
    /\ UNCHANGED pipeVars

CrossNext ==
    \/ CrossFindColumns
    \/ CrossUpdate
    \/ CrossNextSheet

SpecCross == CrossInit /\ [][CrossNext]_vars

\* the columns _find_columns_in_excel gives for sheet s as it was before the
\* write-back
OwnColumns(s) == find_columns_in_excel(cross.before[s], CrossHeaderRows)

\* C30: a code written into a row of a sheet other than the one being
\* processed was resolved through a key read from that sheet's own item
\* column and is written into that sheet's own code column
C30_OtherSheetUsesOwnColumns ==
    cross.pc = "written" =>
        \A k \in 1..Len(cross.writes) :
            LET w == cross.writes[k]
            IN  w.sheet # cross.cur =>
                    /\ w.key_column = OwnColumns(w.sheet).name_column
                    /\ w.column = OwnColumns(w.sheet).code_column

(***************************************************************************)
(* Inputs of the grouping specification.                                   *)

GroupPool == {T_BoltM6, T_BoltM8, T_boltM6, T_LeadBolt, T_NutShtDot, T_Empty, T_Blank}

MaxElems == 3

GroupInit ==
    /\ elements \in SeqsUpTo(GroupPool, MaxElems)
    /\ gs_groups = <<>>
    /\ gs_pc = "input"
    /\ scan = ScanIdle
    /\ PipeIdle
    /\ AuxIdle

GroupSimilar ==
    /\ gs_pc = "input"
    /\ gs_groups' = group_similar(elements)
    /\ gs_pc' = "done"
    /\ UNCHANGED <<elements, scan>>
    /\ UNCHANGED pipeVars
    /\ UNCHANGED auxVars

GroupNext == GroupSimilar

SpecGroup == GroupInit /\ [][GroupNext]_vars

---------------------------------------------------------------------------
(* Claims about group_similar.                                             *)

Count(seq, x) == Cardinality({i \in 1..Len(seq) : seq[i] = x})

HasToken(el) == split(el) # <<>>

MemberOf(g, el) == \E i \in 1..Len(gs_groups[g]) : gs_groups[g][i] = el

GroupsDisjoint ==
    \A g, h \in 1..Len(gs_groups) :
        g # h => \A i \in 1..Len(gs_groups[g]) : ~MemberOf(h, gs_groups[g][i])

\* C5 as stated: the groups are pairwise disjoint and their union is the
\* whole input collection, no input text being dropped.
C5_PartitionOfAllInputs ==
    gs_pc = "done" =>
        /\ GroupsDisjoint
        /\ \A i \in 1..Len(elements) : \E g \in 1..Len(gs_groups) : MemberOf(g, elements[i])
        /\ \A g \in 1..Len(gs_groups) : \A i \in 1..Len(gs_groups[g]) :
               Count(elements, gs_groups[g][i]) > 0

\* C5 amended: the groups are pairwise disjoint; an input text that has at
\* least one whitespace-delimited token occurs in exactly one group, as many
\* times as in the input; a text without a token (empty or whitespace only)
\* is dropped; nothing that is not in the input is in a group.
C5_PartitionOfTokenInputs ==
    gs_pc = "done" =>
        /\ GroupsDisjoint
        /\ \A i \in 1..Len(elements) :
               LET el == elements[i]
               IN  IF HasToken(el)
                   THEN \E g \in 1..Len(gs_groups) :
                            Count(gs_groups[g], el) = Count(elements, el)
                   ELSE \A g \in 1..Len(gs_groups) : ~MemberOf(g, el)
        /\ \A g \in 1..Len(gs_groups) :
               /\ gs_groups[g] # <<>>
               /\ \A i \in 1..Len(gs_groups[g]) : Count(elements, gs_groups[g][i]) > 0

\* a list with a blank text and two texts of one key was grouped
C5_Witness ==
    /\ gs_pc = "done"
    /\ Len(gs_groups) = 1
    /\ \E i \in 1..Len(elements) : ~HasToken(elements[i])
    /\ \E g \in 1..Len(gs_groups) : Len(gs_groups[g]) = 2

\* C6: two grouped texts are in the same group if and only if their first
\* whitespace-delimited tokens are equal.
C6_SameGroupIffSameFirstToken ==
    gs_pc = "done" =>
        \A i, j \in 1..Len(elements) :
            (HasToken(elements[i]) /\ HasToken(elements[j])) =>
                ((\E g \in 1..Len(gs_groups) :
                      MemberOf(g, elements[i]) /\ MemberOf(g, elements[j]))
                 <=> split(elements[i])[1] = split(elements[j])[1])

\* two different texts with the same first token share a group while a text
\* that differs only in the case of its first token is in another group
C6_Witness ==
    /\ gs_pc = "done"
    /\ \E g, h \in 1..Len(gs_groups) :
           /\ g # h
           /\ MemberOf(g, T_BoltM6) /\ MemberOf(g, T_BoltM8)
           /\ MemberOf(h, T_boltM6)

=============================================================================
